---- MODULE Spec2Model ----
(***************************************************************************)
(* Entity / calendar-event extraction pipeline of the AI microservice:     *)
(*   src/ai/services/ner_service.py        NERService                      *)
(*   src/ai/services/entity_extraction.py  EntityExtractionService         *)
(* Texts are sequences of one-character strings; offsets are 0-based       *)
(* half-open character offsets as in Python.                               *)
(***************************************************************************)
EXTENDS Integers, Sequences, FiniteSets, TLC

\* ------------------------------------------------------------------------
\* Bounds of the model
\* ------------------------------------------------------------------------
\* longest text, counted in vocabulary pieces
MaxPieces == 3
\* most entities handed to one merger call (both lists together)
MaxList == 3
\* largest character offset of a span handed to the merger
MaxPos == 3

\* ------------------------------------------------------------------------
\* Characters and Python string primitives
\* ------------------------------------------------------------------------
Digits == {"0","1","2","3","4","5","6","7","8","9"}
LowerLetters == {"a","b","c","d","e","f","g","h","i","j","k","l","m",
                 "n","o","p","q","r","s","t","u","v","w","x","y","z"}
UpperLetters == {"A","B","C","D","E","F","G","H","I","J","K","L","M",
                 "N","O","P","Q","R","S","T","U","V","W","X","Y","Z"}
Letters == LowerLetters \cup UpperLetters
\* \w of the re module
WordChars == Letters \cup Digits \cup {"_"}
\* \s of the re module, and the characters str.strip() / str.split() remove
Whitespace == {" ", "\t", "\n", "\r"}

LowerOf == [c \in UpperLetters |->
  CASE c = "A" -> "a" [] c = "B" -> "b" [] c = "C" -> "c" [] c = "D" -> "d"
    [] c = "E" -> "e" [] c = "F" -> "f" [] c = "G" -> "g" [] c = "H" -> "h"
    [] c = "I" -> "i" [] c = "J" -> "j" [] c = "K" -> "k" [] c = "L" -> "l"
    [] c = "M" -> "m" [] c = "N" -> "n" [] c = "O" -> "o" [] c = "P" -> "p"
    [] c = "Q" -> "q" [] c = "R" -> "r" [] c = "S" -> "s" [] c = "T" -> "t"
    [] c = "U" -> "u" [] c = "V" -> "v" [] c = "W" -> "w" [] c = "X" -> "x"
    [] c = "Y" -> "y" [] OTHER -> "z"]

\* one character of str.lower()
LowerChar(c) == IF c \in UpperLetters THEN LowerOf[c] ELSE c

\* str.lower()
Lower(s) == [i \in 1..Len(s) |-> LowerChar(s[i])]

Min(a, b) == IF a < b THEN a ELSE b
Max(a, b) == IF a > b THEN a ELSE b

\* s[a:b] for a >= 0, with Python's clamping of the bounds
Slice(s, a, b) ==
  LET lo == Min(a, Len(s))
      hi == Min(b, Len(s))
  IN IF hi <= lo THEN <<>> ELSE SubSeq(s, lo + 1, hi)


\* len(s.split()): number of maximal runs of non-whitespace characters
WordCount(s) ==
  Cardinality({i \in 1..Len(s) :
     /\ s[i] \notin Whitespace
     /\ (i = 1 \/ s[i-1] \in Whitespace)})

\* one character of str.upper()
UpperChar(c) ==
  IF c \in LowerLetters THEN CHOOSE u \in UpperLetters : LowerOf[u] = c ELSE c

\* needle in haystack (substring test of str)
Contains(haystack, needle) ==
  \E i \in 0..(Len(haystack) - Len(needle)) :
    SubSeq(haystack, i + 1, i + Len(needle)) = needle

\* haystack.find(needle, from): offset of the first occurrence at or after
\* offset from, or -1
Find(haystack, needle, from) ==
  LET hits == {i \in from..(Len(haystack) - Len(needle)) :
                 SubSeq(haystack, i + 1, i + Len(needle)) = needle}
  IN IF hits = {} THEN -1 ELSE CHOOSE i \in hits : \A j \in hits : i <= j

RECURSIVE SplitFrom(_, _, _)
SplitFrom(s, sep, from) ==
  LET i == Find(s, sep, from)
  IN IF i = -1 THEN <<Slice(s, from, Len(s))>>
     ELSE <<Slice(s, from, i)>> \o SplitFrom(s, sep, i + Len(sep))

\* s.split(sep) for a non-empty separator
Split(s, sep) == SplitFrom(s, sep, 0)

\* s.strip()
Strip(s) ==
  LET keep == {i \in 1..Len(s) : s[i] \notin Whitespace}
  IN IF keep = {} THEN <<>>
     ELSE SubSeq(s, CHOOSE i \in keep : \A j \in keep : i <= j,
                    CHOOSE i \in keep : \A j \in keep : i >= j)

\* A test of emptiness that leaves out the strip().
is_empty(s) == Len(s) = 0

\* "not text.strip()"
IsBlank(s) == Len(Strip(s)) = 0

\* s.title(): a letter that follows a non-letter is upper-cased, every
\* other letter is lower-cased
Title(s) ==
  [i \in 1..Len(s) |->
     IF i = 1 \/ s[i-1] \notin Letters THEN UpperChar(s[i]) ELSE LowerChar(s[i])]

RECURSIVE Concat(_)
\* concatenation of a sequence of sequences
Concat(ps) == IF Len(ps) = 0 THEN <<>> ELSE Head(ps) \o Concat(Tail(ps))

\* dict.get(key, default) on a dictionary modelled as a function
DictGet(d, key, default) == IF key \in DOMAIN d THEN d[key] ELSE default

\* ------------------------------------------------------------------------
\* datetime: [year, month, day, tod], tod in minutes since midnight
\* ------------------------------------------------------------------------
IsLeap(y) == (y % 4 = 0 /\ y % 100 # 0) \/ y % 400 = 0

DaysInMonth(y, m) ==
  IF m = 2 THEN (IF IsLeap(y) THEN 29 ELSE 28)
  ELSE IF m \in {4, 6, 9, 11} THEN 30 ELSE 31

RECURSIVE DaysBeforeMonth(_, _)
DaysBeforeMonth(y, m) ==
  IF m = 1 THEN 0 ELSE DaysBeforeMonth(y, m - 1) + DaysInMonth(y, m - 1)

\* date.toordinal()
ToOrdinal(dt) ==
  LET y == dt.year - 1
  IN y * 365 + (y \div 4) - (y \div 100) + (y \div 400)
     + DaysBeforeMonth(dt.year, dt.month) + dt.day

\* datetime.weekday(): Monday = 0 .. Sunday = 6
Weekday(dt) == (ToOrdinal(dt) + 6) % 7

NextDay(dt) ==
  IF dt.day < DaysInMonth(dt.year, dt.month) THEN [dt EXCEPT !.day = @ + 1]
  ELSE IF dt.month < 12 THEN [dt EXCEPT !.month = @ + 1, !.day = 1]
  ELSE [dt EXCEPT !.year = @ + 1, !.month = 1, !.day = 1]

PrevDay(dt) ==
  IF dt.day > 1 THEN [dt EXCEPT !.day = @ - 1]
  ELSE IF dt.month > 1
       THEN [dt EXCEPT !.month = @ - 1, !.day = DaysInMonth(dt.year, dt.month - 1)]
  ELSE [dt EXCEPT !.year = @ - 1, !.month = 12, !.day = 31]

RECURSIVE AddDays(_, _)
\* dt + timedelta(days=n)
AddDays(dt, n) ==
  IF n = 0 THEN dt
  ELSE IF n > 0 THEN AddDays(NextDay(dt), n - 1)
  ELSE AddDays(PrevDay(dt), n + 1)

\* dt + relativedelta(months=1): the day is clipped to the target month
AddMonth(dt) ==
  LET y == IF dt.month = 12 THEN dt.year + 1 ELSE dt.year
      m == IF dt.month = 12 THEN 1 ELSE dt.month + 1
  IN [dt EXCEPT !.year = y, !.month = m, !.day = Min(dt.day, DaysInMonth(y, m))]

\* dt + relativedelta(years=1)
AddYear(dt) ==
  [dt EXCEPT !.year = @ + 1,
             !.day = Min(dt.day, DaysInMonth(dt.year + 1, dt.month))]

\* datetime.isoformat() / datetime.fromisoformat(): the string form of a
\* timestamp, kept as a tagged tuple of its fields
IsoFormat(dt) == [iso |-> <<dt.year, dt.month, dt.day, dt.tod>>]
FromIsoFormat(str) ==
  [year |-> str.iso[1], month |-> str.iso[2], day |-> str.iso[3], tod |-> str.iso[4]]

\* ------------------------------------------------------------------------
\* The re module: a backtracking matcher over pattern node lists
\*   [k |-> "set",  s |-> S]              one character of S
\*   [k |-> "nset", s |-> S]              one character not in S
\*   [k |-> "wb"]                         \b
\*   [k |-> "alt",  alts |-> <<p1,..>>]   (?:p1|p2|...)
\*   [k |-> "rep",  r |-> p, min, max]    greedy p{min,max}; max = -1: no limit
\* ------------------------------------------------------------------------
Lit(chars) == [i \in 1..Len(chars) |-> [k |-> "set", s |-> {chars[i]}]]
OneOf(S) == <<[k |-> "set", s |-> S]>>
NoneOf(S) == <<[k |-> "nset", s |-> S]>>
WB == <<[k |-> "wb"]>>
Alt(alts) == <<[k |-> "alt", alts |-> alts]>>
Rep(p, lo, hi) == <<[k |-> "rep", r |-> p, min |-> lo, max |-> hi]>>
Opt(p) == Rep(p, 0, 1)
Plus(p) == Rep(p, 1, -1)
Star(p) == Rep(p, 0, -1)

\* membership of a character in a class, under re.IGNORECASE when ic
InClass(c, S, ic) ==
  \/ c \in S
  \/ ic /\ \E d \in S : LowerChar(d) = LowerChar(c)

IsWordAt(t, i) == i >= 1 /\ i <= Len(t) /\ t[i] \in WordChars

\* \b between offsets pos-1 and pos
AtWordBoundary(t, pos) == IsWordAt(t, pos) # IsWordAt(t, pos + 1)

RECURSIVE MatchAt(_, _, _, _)
RECURSIVE MatchAlts(_, _, _, _, _)

\* End offset of the first (highest priority) match of the node list at
\* offset pos, or -1 if there is none.
MatchAt(nodes, pos, t, ic) ==
  IF Len(nodes) = 0 THEN pos
  ELSE
    LET h == Head(nodes)
        rest == Tail(nodes)
    IN CASE h.k = "set" ->
              IF pos < Len(t) /\ InClass(t[pos + 1], h.s, ic)
              THEN MatchAt(rest, pos + 1, t, ic) ELSE -1
         [] h.k = "nset" ->
              IF pos < Len(t) /\ ~InClass(t[pos + 1], h.s, ic)
              THEN MatchAt(rest, pos + 1, t, ic) ELSE -1
         [] h.k = "wb" ->
              IF AtWordBoundary(t, pos)
              THEN MatchAt(rest, pos, t, ic) ELSE -1
         [] h.k = "alt" -> MatchAlts(h.alts, rest, pos, t, ic)
         [] OTHER ->
              IF h.max = 0 THEN MatchAt(rest, pos, t, ic)
              ELSE
                LET more == Rep(h.r, Max(0, h.min - 1),
                                IF h.max = -1 THEN -1 ELSE h.max - 1)
                    greedy == MatchAt(h.r \o more \o rest, pos, t, ic)
                IN IF greedy # -1 THEN greedy
                   ELSE IF h.min = 0 THEN MatchAt(rest, pos, t, ic)
                   ELSE -1

MatchAlts(alts, rest, pos, t, ic) ==
  IF Len(alts) = 0 THEN -1
  ELSE
    LET r == MatchAt(Head(alts) \o rest, pos, t, ic)
    IN IF r # -1 THEN r ELSE MatchAlts(Tail(alts), rest, pos, t, ic)

RECURSIVE ScanFrom(_, _, _, _)
ScanFrom(pat, t, ic, pos) ==
  IF pos > Len(t) THEN <<>>
  ELSE
    LET e == MatchAt(pat, pos, t, ic)
    IN IF e = -1 THEN ScanFrom(pat, t, ic, pos + 1)
       ELSE <<[start |-> pos, end |-> e]>>
            \o ScanFrom(pat, t, ic, IF e > pos THEN e ELSE pos + 1)

\* re.finditer(pat, t): leftmost non-overlapping matches, left to right
FindIter(pat, t, ic) == ScanFrom(pat, t, ic, 0)

\* ------------------------------------------------------------------------
\* Patterns of EntityExtractionService
\* ------------------------------------------------------------------------
D12 == Rep(OneOf(Digits), 1, 2)
D24 == Rep(OneOf(Digits), 2, 4)
DN(n) == Rep(OneOf(Digits), n, n)
AmPm == Alt(<<Lit(<<"a","m">>), Lit(<<"p","m">>), Lit(<<"A","M">>), Lit(<<"P","M">>)>>)

weekdays == <<<<"m","o","n","d","a","y">>,
             <<"t","u","e","s","d","a","y">>,
             <<"w","e","d","n","e","s","d","a","y">>,
             <<"t","h","u","r","s","d","a","y">>,
             <<"f","r","i","d","a","y">>,
             <<"s","a","t","u","r","d","a","y">>,
             <<"s","u","n","d","a","y">>>>

months == <<<<"j","a","n","u","a","r","y">>,
           <<"f","e","b","r","u","a","r","y">>,
           <<"m","a","r","c","h">>,
           <<"a","p","r","i","l">>,
           <<"m","a","y">>,
           <<"j","u","n","e">>,
           <<"j","u","l","y">>,
           <<"a","u","g","u","s","t">>,
           <<"s","e","p","t","e","m","b","e","r">>,
           <<"o","c","t","o","b","e","r">>,
           <<"n","o","v","e","m","b","e","r">>,
           <<"d","e","c","e","m","b","e","r">>>>

WordAlt(words) == Alt([i \in 1..Len(words) |-> Lit(words[i])])
WS1 == Plus(OneOf(Whitespace))
WS0 == Star(OneOf(Whitespace))

\* self.date_patterns, matched with re.IGNORECASE
date_patterns == <<
  WB \o WordAlt(weekdays) \o WB,
  WB \o WordAlt(months) \o WS1 \o D12
     \o Opt(Alt(<<Lit(<<"s","t">>), Lit(<<"n","d">>), Lit(<<"r","d">>), Lit(<<"t","h">>)>>)) \o WB,
  WB \o D12 \o Lit(<<"/">>) \o D12 \o Lit(<<"/">>) \o D24 \o WB,
  WB \o D12 \o Lit(<<"-">>) \o D12 \o Lit(<<"-">>) \o D24 \o WB,
  WB \o Lit(<<"t","o","m","o","r","r","o","w">>) \o WB,
  WB \o Lit(<<"y","e","s","t","e","r","d","a","y">>) \o WB,
  WB \o Lit(<<"n","e","x","t">>) \o WS1 \o Alt(<<Lit(<<"w","e","e","k">>), Lit(<<"m","o","n","t","h">>), Lit(<<"y","e","a","r">>)>>) \o WB,
  WB \o Lit(<<"i","n">>) \o WS1 \o Plus(OneOf(Digits)) \o WS1
     \o Alt(<<Lit(<<"d","a","y">>) \o Opt(Lit(<<"s">>)), Lit(<<"w","e","e","k">>) \o Opt(Lit(<<"s">>)), Lit(<<"m","o","n","t","h">>) \o Opt(Lit(<<"s">>))>>) \o WB
>>

\* self.time_patterns, matched with re.IGNORECASE
time_patterns == <<
  WB \o D12 \o Lit(<<":">>) \o DN(2) \o WS0 \o Opt(AmPm) \o WB,
  WB \o D12 \o WS0 \o AmPm \o WB,
  WB \o Lit(<<"a","t">>) \o WS1 \o D12 \o Opt(Lit(<<":">>) \o DN(2)) \o WS0 \o Opt(AmPm) \o WB,
  WB \o Alt(<<Lit(<<"m","o","r","n","i","n","g">>), Lit(<<"a","f","t","e","r","n","o","o","n">>),
              Lit(<<"e","v","e","n","i","n","g">>), Lit(<<"n","i","g","h","t">>)>>) \o WB,
  WB \o Lit(<<"n","o","o","n">>) \o WB,
  WB \o Lit(<<"m","i","d","n","i","g","h","t">>) \o WB
>>

\* email_pattern of _extract_emails (case sensitive)
EmailLocalChars == Letters \cup Digits \cup {".", "_", "%", "+", "-"}
EmailDomainChars == Letters \cup Digits \cup {".", "-"}
email_pattern ==
  WB \o Plus(OneOf(EmailLocalChars)) \o Lit(<<"@">>) \o Plus(OneOf(EmailDomainChars))
     \o Lit(<<".">>) \o Rep(OneOf(Letters \cup {"|"}), 2, -1) \o WB

\* patterns of _extract_phone_numbers (case sensitive)
patterns == <<
  WB \o DN(3) \o Lit(<<"-">>) \o DN(3) \o Lit(<<"-">>) \o DN(4) \o WB,
  WB \o Lit(<<"(">>) \o DN(3) \o Lit(<<")">>) \o WS0 \o DN(3) \o Lit(<<"-">>) \o DN(4) \o WB,
  WB \o DN(3) \o Lit(<<".">>) \o DN(3) \o Lit(<<".">>) \o DN(4) \o WB,
  WB \o DN(10) \o WB,
  WB \o Lit(<<"+","1">>) \o WS0 \o DN(3) \o WS0 \o DN(3) \o WS0 \o DN(4) \o WB
>>

\* url_pattern of _extract_urls (case sensitive).  The class of the source
\* also excludes the backquote, which no text of this model contains.
UrlStopChars == Whitespace \cup {"<", ">", "\"", "{", "}", "|", "\\", "^", "[", "]"}
url_pattern ==
  Alt(<<Lit(<<"h","t","t","p">>) \o Opt(Lit(<<"s">>)) \o Lit(<<":","/","/">>) \o Plus(NoneOf(UrlStopChars)),
        Lit(<<"w","w","w",".">>) \o Plus(NoneOf(UrlStopChars))>>)

\* self.event_keywords
event_keywords == <<
  <<"m","e","e","t","i","n","g">>,
  <<"a","p","p","o","i","n","t","m","e","n","t">>,
  <<"c","a","l","l">>,
  <<"c","o","n","f","e","r","e","n","c","e">>,
  <<"l","u","n","c","h">>,
  <<"d","i","n","n","e","r">>,
  <<"p","r","e","s","e","n","t","a","t","i","o","n">>,
  <<"i","n","t","e","r","v","i","e","w">>,
  <<"w","o","r","k","s","h","o","p">>,
  <<"s","e","m","i","n","a","r">>,
  <<"t","r","a","i","n","i","n","g">>,
  <<"d","e","a","d","l","i","n","e">>,
  <<"d","u","e">>,
  <<"r","e","m","i","n","d","e","r">>,
  <<"e","v","e","n","t">>,
  <<"p","a","r","t","y">>,
  <<"c","e","l","e","b","r","a","t","i","o","n">>,
  <<"b","i","r","t","h","d","a","y">>,
  <<"a","n","n","i","v","e","r","s","a","r","y">>,
  <<"v","a","c","a","t","i","o","n">>,
  <<"t","r","i","p">>,
  <<"f","l","i","g","h","t">>,
  <<"t","r","a","v","e","l">>
>>

\* ------------------------------------------------------------------------
\* Request texts: every concatenation of at most MaxPieces vocabulary pieces
\* ------------------------------------------------------------------------
Vocabulary == {
  <<" ">>,
  <<".">>,
  <<"a","t">>,
  <<"3","p","m">>,
  <<"t","o","m","o","r","r","o","w">>,
  <<"m","e","e","t","i","n","g">>,
  <<"a","@","b",".","c","o">>
}

Texts == {Concat(ps) : ps \in UNION {[1..n -> Vocabulary] : n \in 0..MaxPieces}}

\* ------------------------------------------------------------------------
\* Pattern recognizers of EntityExtractionService.  Confidences are in
\* hundredths.  Calls into validate_email, phonenumbers and dateutil return
\* what the library decides; the outcome is an argument of the recognizer.
\* ------------------------------------------------------------------------
\* metadata=None
NoMetadata == [k \in {} |-> TRUE]

\* the ExtractedEntity dataclass
ExtractedEntity(type, value, confidence, context, start_pos, end_pos, metadata) ==
  [type |-> type, value |-> value, confidence |-> confidence,
   context |-> context, start_pos |-> start_pos, end_pos |-> end_pos,
   metadata |-> metadata]

\* match.group()
MatchText(text, m) == Slice(text, m.start, m.end)

\* text[max(0, match.start()-radius):match.end()+radius]
ContextWindow(text, m, radius) == Slice(text, Max(0, m.start - radius), m.end + radius)

\* matches of a list of patterns, pattern by pattern
FlatMatches(pats, text, ic) ==
  Concat([i \in 1..Len(pats) |-> FindIter(pats[i], text, ic)])

\* validate_email(email).email: the address with its domain lower-cased
NormalizeEmail(email) ==
  LET at == Find(email, <<"@">>, 0)
  IN Slice(email, 0, at + 1) \o Lower(Slice(email, at + 1, Len(email)))

\* outcomes of validate_email: the result object, EmailNotValidError, or
\* any other exception
EmailOutcomes == {"valid", "invalid", "error"}

email_matches(text) == FindIter(email_pattern, text, FALSE)

\* An e-mail recognizer that leaves out the addresses the validator rejects.
extract_emails_valid_only(text, found, validate) ==
  LET kept == SelectSeq([i \in 1..Len(found) |-> [m |-> found[i], v |-> validate[i]]],
                        LAMBDA x : x.v # "invalid")
  IN [raised |-> \E i \in 1..Len(found) : validate[i] = "error",
      entities |->
        [i \in 1..Len(kept) |->
           ExtractedEntity("EMAIL", NormalizeEmail(MatchText(text, kept[i].m)), 90,
             ContextWindow(text, kept[i].m, 30), kept[i].m.start, kept[i].m.end,
             [validated |-> TRUE])]]

\* _extract_emails: found is what re.finditer(email_pattern, text) yields,
\* validate[i] the outcome of validate_email on the i-th match.  Only
\* EmailNotValidError is caught: [raised, entities]
extract_emails(text, found, validate) ==
  [raised |-> \E i \in 1..Len(found) : validate[i] = "error",
   entities |->
     [i \in 1..Len(found) |->
        ExtractedEntity("EMAIL",
          IF validate[i] = "valid" THEN NormalizeEmail(MatchText(text, found[i]))
                                   ELSE MatchText(text, found[i]),
          IF validate[i] = "valid" THEN 90 ELSE 50,
          ContextWindow(text, found[i], 30), found[i].start, found[i].end,
          [validated |-> validate[i] = "valid"])]]

\* outcomes of phonenumbers: parse / is_valid_number / format_number raise,
\* the number is valid, or it parses and is not valid
PhoneOutcomes == {"raises", "valid", "not_valid"}

phone_matches(text) == FlatMatches(patterns, text, FALSE)

\* format_number(parsed, NATIONAL) of a US number: (AAA) EEE-LLLL
NationalFormat(phone) ==
  LET ds == SelectSeq(phone, LAMBDA c : c \in Digits)
      d == IF Len(ds) = 11 /\ ds[1] = "1" THEN Tail(ds) ELSE ds
  IN <<"(">> \o Slice(d, 0, 3) \o <<")", " ">> \o Slice(d, 3, 6)
     \o <<"-">> \o Slice(d, 6, Len(d))

\* _extract_phone_numbers: found is what the loops over re.finditer yield,
\* phonelib[i] the outcome of phonenumbers on the i-th match.  A number that
\* parses and is not valid adds nothing
extract_phone_numbers(text, found, phonelib) ==
  LET one(i) ==
        IF phonelib[i] = "valid"
        THEN <<ExtractedEntity("PHONE", NationalFormat(MatchText(text, found[i])), 90,
                 ContextWindow(text, found[i], 30), found[i].start, found[i].end,
                 [validated |-> TRUE, original |-> MatchText(text, found[i])])>>
        ELSE IF phonelib[i] = "raises"
        THEN <<ExtractedEntity("PHONE", MatchText(text, found[i]), 60,
                 ContextWindow(text, found[i], 30), found[i].start, found[i].end,
                 [validated |-> FALSE])>>
        ELSE <<>>
  IN Concat([i \in 1..Len(found) |-> one(i)])

\* _extract_urls
extract_urls(text) ==
  LET ms == FindIter(url_pattern, text, FALSE)
  IN [i \in 1..Len(ms) |->
        ExtractedEntity("URL", MatchText(text, ms[i]), 80,
          ContextWindow(text, ms[i], 30), ms[i].start, ms[i].end, NoMetadata)]

\* position of the first weekday name contained in s, 0 if there is none
FirstWeekday(s) ==
  LET hits == {i \in 1..Len(weekdays) : Contains(s, weekdays[i])}
  IN IF hits = {} THEN 0 ELSE CHOOSE i \in hits : \A j \in hits : i <= j

\* A day count that lets the target day be today.
days_ahead_or_today(i, weekday) ==
  IF i - weekday < 0 THEN i - weekday + 7 ELSE i - weekday

\* "days_ahead = i - today.weekday(); if days_ahead <= 0: days_ahead += 7"
days_ahead(i, weekday) ==
  IF i - weekday <= 0 THEN i - weekday + 7 ELSE i - weekday

\* A resolver that looks for weekday names before the relative keywords.
parse_date_weekday_first(date_text, today, dateutil) ==
  LET low == Lower(date_text)
      wd == FirstWeekday(low)
  IN IF wd # 0
       THEN [ok |-> TRUE, value |-> AddDays(today, days_ahead(wd - 1, Weekday(today)))]
     ELSE IF Contains(low, <<"t","o","m","o","r","r","o","w">>)
       THEN [ok |-> TRUE, value |-> AddDays(today, 1)]
     ELSE IF Contains(low, <<"y","e","s","t","e","r","d","a","y">>)
       THEN [ok |-> TRUE, value |-> AddDays(today, -1)]
     ELSE IF Contains(low, <<"n","e","x","t"," ","w","e","e","k">>)
       THEN [ok |-> TRUE, value |-> AddDays(today, 7)]
     ELSE IF Contains(low, <<"n","e","x","t"," ","m","o","n","t","h">>)
       THEN [ok |-> TRUE, value |-> AddMonth(today)]
     ELSE IF Contains(low, <<"n","e","x","t"," ","y","e","a","r">>)
       THEN [ok |-> TRUE, value |-> AddYear(today)]
     ELSE dateutil

\* _parse_date: [ok, value]; ok = FALSE stands for None.  today is
\* datetime.now(); dateutil is the outcome of dateutil.parser.parse
parse_date(date_text, today, dateutil) ==
  LET low == Lower(date_text)
      wd == FirstWeekday(low)
  IN IF Contains(low, <<"t","o","m","o","r","r","o","w">>)
       THEN [ok |-> TRUE, value |-> AddDays(today, 1)]
     ELSE IF Contains(low, <<"y","e","s","t","e","r","d","a","y">>)
       THEN [ok |-> TRUE, value |-> AddDays(today, -1)]
     ELSE IF Contains(low, <<"n","e","x","t"," ","w","e","e","k">>)
       THEN [ok |-> TRUE, value |-> AddDays(today, 7)]
     ELSE IF Contains(low, <<"n","e","x","t"," ","m","o","n","t","h">>)
       THEN [ok |-> TRUE, value |-> AddMonth(today)]
     ELSE IF Contains(low, <<"n","e","x","t"," ","y","e","a","r">>)
       THEN [ok |-> TRUE, value |-> AddYear(today)]
     ELSE IF wd # 0
       THEN [ok |-> TRUE, value |-> AddDays(today, days_ahead(wd - 1, Weekday(today)))]
     ELSE dateutil

date_matches(text) == FlatMatches(date_patterns, text, TRUE)

\* A recognizer that reports a match it could not resolve, without
\* metadata.
extract_dates_unparsed_kept(text, found, today, dateutil) ==
  LET one(i) ==
        LET parsed_date == parse_date(MatchText(text, found[i]), today, dateutil)
        IN <<ExtractedEntity("DATE", MatchText(text, found[i]), 80,
               ContextWindow(text, found[i], 30), found[i].start, found[i].end,
               IF parsed_date.ok THEN [parsed_date |-> IsoFormat(parsed_date.value)]
               ELSE NoMetadata)>>
  IN Concat([i \in 1..Len(found) |-> one(i)])

\* _extract_dates: found is what the loops over re.finditer yield.  A match
\* whose text does not parse adds nothing
extract_dates(text, found, today, dateutil) ==
  LET one(i) ==
        LET parsed_date == parse_date(MatchText(text, found[i]), today, dateutil)
        IN IF parsed_date.ok
           THEN <<ExtractedEntity("DATE", MatchText(text, found[i]), 80,
                    ContextWindow(text, found[i], 30), found[i].start, found[i].end,
                    [parsed_date |-> IsoFormat(parsed_date.value)])>>
           ELSE <<>>
  IN Concat([i \in 1..Len(found) |-> one(i)])

\* _extract_times
extract_times(text) ==
  LET ms == FlatMatches(time_patterns, text, TRUE)
  IN [i \in 1..Len(ms) |->
        ExtractedEntity("TIME", MatchText(text, ms[i]), 70,
          ContextWindow(text, ms[i], 30), ms[i].start, ms[i].end, NoMetadata)]

\* A count that records which values occur, not how often.
count_by_presence(entities, key) ==
  [t \in {entities[i][key] : i \in 1..Len(entities)} |-> 1]

\* _count_entities of either service: occurrences per value of the key
count_by(entities, key) ==
  [t \in {entities[i][key] : i \in 1..Len(entities)} |->
     Cardinality({i \in 1..Len(entities) : entities[i][key] = t})]

\* ------------------------------------------------------------------------
\* Calendar event synthesizer of EntityExtractionService
\* ------------------------------------------------------------------------
\* Optional[...] values
None == [ok |-> FALSE]
Some(v) == [ok |-> TRUE, value |-> v]

DigitValue(c) ==
  CASE c = "0" -> 0 [] c = "1" -> 1 [] c = "2" -> 2 [] c = "3" -> 3
    [] c = "4" -> 4 [] c = "5" -> 5 [] c = "6" -> 6 [] c = "7" -> 7
    [] c = "8" -> 8 [] OTHER -> 9

\* dateutil.parser.parse(time_str, fuzzy=True).time() on the strings the
\* time patterns produce, as minutes since midnight: H[:MM][ ][am|pm] after
\* an optional "at"; a lone number is read as a day of the month (time
\* 00:00); a string without a number does not parse
ParseTimeOfDay(time_str) ==
  LET low == Lower(time_str)
      ds == {i \in 1..Len(low) : low[i] \in Digits}
      first == CHOOSE i \in ds : \A j \in ds : i <= j
      two == first + 1 \in ds
      hour == IF two THEN 10 * DigitValue(low[first]) + DigitValue(low[first + 1])
              ELSE DigitValue(low[first])
      colon == first + (IF two THEN 2 ELSE 1)
      has_min == colon + 2 <= Len(low) /\ low[colon] = ":"
      minute == IF has_min
                THEN 10 * DigitValue(low[colon + 1]) + DigitValue(low[colon + 2])
                ELSE 0
      pm == Contains(low, <<"p","m">>)
      am == Contains(low, <<"a","m">>)
      hour24 == IF pm /\ hour < 12 THEN hour + 12
                ELSE IF am /\ hour = 12 THEN 0 ELSE hour
  IN IF ds = {} THEN None
     ELSE IF (pm \/ am) /\ (hour = 0 \/ hour > 12) THEN None
     ELSE IF ~(pm \/ am) /\ ~has_min THEN Some(0)
     ELSE IF hour > 23 \/ minute > 59 THEN None
     ELSE Some(60 * hour24 + minute)

\* The keyword that occurs earliest in s, 0 if none.
EarliestKeyword(s) ==
  LET hits == {i \in 1..Len(event_keywords) : Contains(s, event_keywords[i])}
      at(i) == Find(s, event_keywords[i], 0)
  IN IF hits = {} THEN 0
     ELSE CHOOSE i \in hits :
            \A j \in hits : at(i) < at(j) \/ (at(i) = at(j) /\ i <= j)

\* first keyword of event_keywords (list order) contained in s, 0 if none
FirstKeyword(s) ==
  LET hits == {i \in 1..Len(event_keywords) : Contains(s, event_keywords[i])}
  IN IF hits = {} THEN 0 ELSE CHOOSE i \in hits : \A j \in hits : i <= j

\* _extract_event_title
extract_event_title(sentence) ==
  LET low == Lower(sentence)
      k == FirstKeyword(low)
      parts == Split(low, event_keywords[k])
  IN IF k = 0 THEN Strip(Slice(sentence, 0, 50))
     ELSE IF Len(parts) > 1
       THEN Title(event_keywords[k]) \o <<" ">> \o Slice(Strip(parts[2]), 0, 50)
     ELSE Title(event_keywords[k])

\* _combine_date_time
combine_date_time(date_entities, time_entities, today, dateutil) ==
  IF Len(date_entities) = 0 THEN None
  ELSE
    LET date_entity == date_entities[1]
        parsed_date ==
          IF "parsed_date" \in DOMAIN date_entity.metadata
          THEN Some(FromIsoFormat(date_entity.metadata.parsed_date))
          ELSE parse_date(date_entity.value, today, dateutil)
        time_obj == ParseTimeOfDay(time_entities[1].value)
    IN IF ~parsed_date.ok THEN None
       ELSE IF Len(time_entities) > 0 /\ time_obj.ok
         THEN Some([parsed_date.value EXCEPT !.tod = time_obj.value])
       ELSE parsed_date

\* An emission test that joins keyword and entities with "or".
emits_event_either(has_event_keyword, date_entities, time_entities) ==
  has_event_keyword \/ (Len(date_entities) > 0 \/ Len(time_entities) > 0)

\* "if has_event_keyword and (date_entities or time_entities)"
emits_event(has_event_keyword, date_entities, time_entities) ==
  has_event_keyword /\ (Len(date_entities) > 0 \/ Len(time_entities) > 0)

\* A confidence that asks for a date or a time only.
event_confidence_either(has_event_keyword, date_entities, time_entities) ==
  IF has_event_keyword /\ (Len(date_entities) > 0 \/ Len(time_entities) > 0)
  THEN 70 ELSE 50

\* "0.7 if has_event_keyword and date_entities and time_entities else 0.5"
event_confidence(has_event_keyword, date_entities, time_entities) ==
  IF has_event_keyword /\ Len(date_entities) > 0 /\ Len(time_entities) > 0
  THEN 70 ELSE 50

\* the CalendarEvent built for one sentence by _extract_calendar_events, or
\* nothing
sentence_event(sentence, entities, today, dateutil) ==
  LET has_event_keyword == FirstKeyword(Lower(sentence)) # 0
      sentence_entities ==
        SelectSeq(entities, LAMBDA e :
          Contains(sentence, e.context) \/ Contains(e.context, sentence))
      date_entities == SelectSeq(sentence_entities, LAMBDA e : e.type = "DATE")
      time_entities == SelectSeq(sentence_entities, LAMBDA e : e.type = "TIME")
      person_entities ==
        SelectSeq(sentence_entities, LAMBDA e : e.type \in {"PERSON", "ORG"})
      location_entities ==
        SelectSeq(sentence_entities, LAMBDA e : e.type \in {"GPE", "LOC", "FAC"})
  IN IF emits_event(has_event_keyword, date_entities, time_entities)
     THEN <<[title |-> extract_event_title(sentence),
             description |-> sentence,
             start_time |-> combine_date_time(date_entities, time_entities,
                                              today, dateutil),
             end_time |-> None,
             location |-> IF Len(location_entities) > 0
                          THEN Some(location_entities[1].value) ELSE None,
             attendees |-> [i \in 1..Len(person_entities) |-> person_entities[i].value],
             confidence |-> event_confidence(has_event_keyword, date_entities,
                                             time_entities),
             source_text |-> sentence,
             entities |-> sentence_entities]>>
     ELSE <<>>

\* A synthesizer that reports a sentence text once, however often it occurs.
extract_calendar_events_once(text, entities, today, dateutil) ==
  LET sentences == Split(text, <<".">>)
      one(i) ==
        LET sentence == Strip(sentences[i])
        IN IF Len(sentence) = 0 \/ \E j \in 1..(i - 1) : Strip(sentences[j]) = sentence
           THEN <<>>
           ELSE sentence_event(sentence, entities, today, dateutil)
  IN Concat([i \in 1..Len(sentences) |-> one(i)])

\* _extract_calendar_events
extract_calendar_events(text, entities, today, dateutil) ==
  LET sentences == Split(text, <<".">>)
      one(i) ==
        LET sentence == Strip(sentences[i])
        IN IF Len(sentence) = 0 THEN <<>>
           ELSE sentence_event(sentence, entities, today, dateutil)
  IN Concat([i \in 1..Len(sentences) |-> one(i)])

\* ------------------------------------------------------------------------
\* NERService._merge_entities
\* ------------------------------------------------------------------------
\* A typo-sized variant of the overlap test: the last operand reads the start
\* of span1 instead of its end.
spans_overlap_start_only(span1, span2) ==
  span1[1] < span2[2] /\ span2[1] < span1[1]

\* _spans_overlap(span1, span2): spans are <<start, end>> tuples
spans_overlap(span1, span2) ==
  span1[1] < span2[2] /\ span2[1] < span1[2]

RECURSIVE sort_rest_unstable(_, _)
sort_rest_unstable(all_entities, remaining) ==
  IF remaining = {} THEN <<>>
  ELSE
    LET m == CHOOSE i \in remaining : \A j \in remaining :
               \/ all_entities[i].start < all_entities[j].start
               \/ all_entities[i].start = all_entities[j].start /\ i >= j
    IN <<m>> \o sort_rest_unstable(all_entities, remaining \ {m})

\* A sort that orders equal keys by descending input position.
unstable_order(all_entities) ==
  sort_rest_unstable(all_entities, 1..Len(all_entities))

RECURSIVE sort_rest(_, _)
sort_rest(all_entities, remaining) ==
  IF remaining = {} THEN <<>>
  ELSE
    LET m == CHOOSE i \in remaining : \A j \in remaining :
               \/ all_entities[i].start < all_entities[j].start
               \/ all_entities[i].start = all_entities[j].start /\ i <= j
    IN <<m>> \o sort_rest(all_entities, remaining \ {m})

\* all_entities.sort(key=lambda x: x["start"]): the positions of the list
\* in ascending order of start; list.sort is stable
sorted_order(all_entities) == sort_rest(all_entities, 1..Len(all_entities))

\* A scan that remembers the span of every entity it has looked at, kept or
\* not.
RECURSIVE merge_scan_all_seen(_, _, _, _)
merge_scan_all_seen(sorted, k, merged_so_far, seen_spans) ==
  IF k > Len(sorted) THEN merged_so_far
  ELSE
    LET entity == sorted[k]
        span == <<entity.start, entity.end>>
        overlapping == \E seen_span \in seen_spans : spans_overlap(span, seen_span)
    IN merge_scan_all_seen(sorted, k + 1,
         IF overlapping THEN merged_so_far ELSE Append(merged_so_far, entity),
         seen_spans \cup {span})

RECURSIVE merge_scan(_, _, _, _)
\* the for loop of _merge_entities over the sorted list, from position k on
merge_scan(sorted, k, merged_so_far, seen_spans) ==
  IF k > Len(sorted) THEN merged_so_far
  ELSE
    LET entity == sorted[k]
        span == <<entity.start, entity.end>>
        overlapping == \E seen_span \in seen_spans : spans_overlap(span, seen_span)
    IN IF overlapping
       THEN merge_scan(sorted, k + 1, merged_so_far, seen_spans)
       ELSE merge_scan(sorted, k + 1, Append(merged_so_far, entity),
                       seen_spans \cup {span})

\* _merge_entities(spacy_entities, hf_entities)
merge_entities(spacy_list, hf_list) ==
  LET all_entities == spacy_list \o hf_list
      order == sorted_order(all_entities)
      sorted == [i \in 1..Len(order) |-> all_entities[order[i]]]
  IN merge_scan(sorted, 1, <<>>, {})

\* ------------------------------------------------------------------------
\* NERService.extract_entities
\* ------------------------------------------------------------------------
\* spacy.explain(label)
explain(label) == <<"explain", label>>

\* _extract_spacy_entities: ents is doc.ents, each [label_, start_char, end_char]
extract_spacy_entities(text, ents) ==
  [i \in 1..Len(ents) |->
     [text |-> Slice(text, ents[i].start_char, ents[i].end_char),
      label |-> ents[i].label_,
      start |-> ents[i].start_char,
      end |-> ents[i].end_char,
      description |-> explain(ents[i].label_),
      source |-> "spacy"]]

\* _extract_hf_entities: results is the pipeline output, each a dictionary
\* that may lack keys; scores and the threshold are in hundredths
extract_hf_entities(results, threshold) ==
  LET kept == SelectSeq(results, LAMBDA entity : DictGet(entity, "score", 0) >= threshold)
  IN [i \in 1..Len(kept) |->
        [text |-> DictGet(kept[i], "word", <<>>),
         label |-> DictGet(kept[i], "entity_group", ""),
         start |-> DictGet(kept[i], "start", 0),
         end |-> DictGet(kept[i], "end", 0),
         confidence |-> DictGet(kept[i], "score", 0),
         source |-> "huggingface"]]

\* default of the confidence_threshold parameter, in hundredths
confidence_threshold == 50

\* An NER service that also hands the merged list over under the key
\* "entities".
ner_extract_entities_keyed(text, nlp, ner, ents, results) ==
  LET spacy_entities == IF nlp THEN extract_spacy_entities(text, ents) ELSE <<>>
      hf_entities == IF ner THEN extract_hf_entities(results, confidence_threshold)
                     ELSE <<>>
      merged_entities == merge_entities(spacy_entities, hf_entities)
  IN [spacy_entities |-> spacy_entities,
      hf_entities |-> hf_entities,
      merged_entities |-> merged_entities,
      entities |-> merged_entities,
      entity_counts |-> count_by(merged_entities, "label"),
      text_length |-> Len(text)]

\* NERService.extract_entities(text) with the default arguments; nlp and ner
\* tell whether self.spacy_nlp / self.hf_ner are loaded
ner_extract_entities(text, nlp, ner, ents, results) ==
  LET spacy_entities == IF nlp THEN extract_spacy_entities(text, ents) ELSE <<>>
      hf_entities == IF ner THEN extract_hf_entities(results, confidence_threshold)
                     ELSE <<>>
      merged_entities == merge_entities(spacy_entities, hf_entities)
  IN [spacy_entities |-> spacy_entities,
      hf_entities |-> hf_entities,
      merged_entities |-> merged_entities,
      entity_counts |-> count_by(merged_entities, "label"),
      text_length |-> Len(text)]

\* ------------------------------------------------------------------------
\* EntityExtractionService.extract_entities
\* ------------------------------------------------------------------------
\* no dictionary
NoResult == [k \in {} |-> TRUE]

\* the return value for blank text
BlankResult == [entities |-> <<>>, calendar_events |-> <<>>]

\* keys an NER entity must have for the loop over the NER results
NerKeysRead == {"label", "text", "confidence", "start", "end"}

\* an awaited call of NERService.extract_entities: not completed, returned
\* value, or raised
NerPending == [state |-> "pending", value |-> NoResult]
NerReturned(value) == [state |-> "returned", value |-> value]
NerRaised == [state |-> "raised", value |-> NoResult]

\* how a run of extract_entities ends: [outcome, error, calls, result]
Raises(error, calls) ==
  [outcome |-> "raised", error |-> error, calls |-> calls, result |-> NoResult]
Returns(calls, result) ==
  [outcome |-> "returned", error |-> "none", calls |-> calls, result |-> result]

\* extract_entities from the loop over the NER results to its return.
\* emails .. times are the values returned by the five recognizers, which run
\* in this order until one raises
run_recognizers(text, include_calendar, ner_results, emails, phones, urls, dates, times, today, dateutil) ==
  LET ner_list == DictGet(ner_results, "entities", <<>>)
      key_error == \E i \in 1..Len(ner_list) : ~(NerKeysRead \subseteq DOMAIN ner_list[i])
      ner_entities ==
        [i \in 1..Len(ner_list) |->
           ExtractedEntity(ner_list[i].label, ner_list[i].text, ner_list[i].confidence,
             Slice(text, Max(0, ner_list[i].start - 50), ner_list[i].end + 50),
             ner_list[i].start, ner_list[i].end, [source |-> "ner"])]
      entities == ner_entities \o emails.entities \o phones \o urls \o dates \o times
      recognizers == <<"_extract_emails", "_extract_phone_numbers", "_extract_urls",
                       "_extract_dates", "_extract_times">>
  IN IF key_error THEN Raises("KeyError", <<>>)
     ELSE IF emails.raised THEN Raises("ValidatorError", <<"_extract_emails">>)
     ELSE IF include_calendar
       THEN Returns(recognizers \o <<"_extract_calendar_events">>,
                    [entities |-> entities,
                     entity_counts |-> count_by(entities, "type"),
                     text_length |-> Len(text),
                     word_count |-> WordCount(text),
                     calendar_events |->
                       extract_calendar_events(text, entities, today, dateutil)])
     ELSE Returns(recognizers,
                  [entities |-> entities,
                   entity_counts |-> count_by(entities, "type"),
                   text_length |-> Len(text),
                   word_count |-> WordCount(text)])

\* An orchestrator that takes a failed NER call for one that found nothing.
extract_entities_degraded(text, include_calendar, ner_call, emails, phones, urls, dates, times, today, dateutil) ==
  run_recognizers(text, include_calendar,
                  IF ner_call.state = "raised" THEN NoResult ELSE ner_call.value,
                  emails, phones, urls, dates, times, today, dateutil)

\* The part of extract_entities that runs once the awaited NER call has
\* completed: the await stands in no try block, so what the call raises
\* leaves extract_entities at once
extract_entities_resume(text, include_calendar, ner_call, emails, phones, urls, dates, times, today, dateutil) ==
  IF ner_call.state = "raised" THEN Raises("NerError", <<>>)
  ELSE run_recognizers(text, include_calendar, ner_call.value,
                       emails, phones, urls, dates, times, today, dateutil)

\* ------------------------------------------------------------------------
\* State
\* ------------------------------------------------------------------------
VARIABLES
  m_pc,        \* merger harness: "idle", "merged" (one call made), "remerged"
  m_spacy,     \* first argument of the last _merge_entities call
  m_hf,        \* second argument of the last _merge_entities call
  m_merged,    \* list returned by the last _merge_entities call
  spacy_nlp,   \* NERService.spacy_nlp is loaded
  hf_ner,      \* NERService.hf_ner is loaded
  pc,          \* extract_entities call: "idle", "ner" (awaiting the NER
               \* service), "done"
  text,        \* argument text of the call
  include_calendar,  \* argument include_calendar of the call
  ner_call,    \* the awaited NER call of the call
  calls,       \* collaborators and recognizers the call has invoked, in order
  outcome,     \* "none", "returned" or "raised"
  error,       \* the exception the call raised, "none" if it raised none
  result,      \* the dictionary returned by the call
  f_pc,        \* single-method harness: "idle" or "returned"
  f_args,      \* arguments of the method call, and what its libraries decided
  f_ret,       \* value the method returned
  c_frames,    \* concurrent calls: the locals of each extract_entities frame
  c_given,     \* concurrent calls: what each call was handed by its caller,
               \* by the NER service and by the libraries
  c_out        \* concurrent calls: how far each call is and how it ended

merge_vars == <<m_pc, m_spacy, m_hf, m_merged>>
call_vars == <<pc, text, include_calendar, ner_call, calls, outcome, error, result>>
service_vars == <<spacy_nlp, hf_ner>>
fn_vars == <<f_pc, f_args, f_ret>>
conc_vars == <<c_frames, c_given, c_out>>
vars == <<m_pc, m_spacy, m_hf, m_merged, spacy_nlp, hf_ner,
          pc, text, include_calendar, ner_call, calls, outcome, error, result,
          f_pc, f_args, f_ret, c_frames, c_given, c_out>>

\* ------------------------------------------------------------------------
\* Service specification: one NERService, one EntityExtractionService on it,
\* one extract_entities call at a time
\* ------------------------------------------------------------------------
InitMergeVars ==
  /\ m_pc = "idle"
  /\ m_spacy = <<>>
  /\ m_hf = <<>>
  /\ m_merged = <<>>

InitCallVars ==
  /\ pc = "idle"
  /\ text = <<>>
  /\ include_calendar = FALSE
  /\ ner_call = NerPending
  /\ calls = <<>>
  /\ outcome = "none"
  /\ error = "none"
  /\ result = NoResult

InitFnVars ==
  /\ f_pc = "idle"
  /\ f_args = NoResult
  /\ f_ret = NoResult

InitConcVars ==
  /\ c_frames = <<>>
  /\ c_given = <<>>
  /\ c_out = <<>>

\* NERService() and EntityExtractionService(ner_service) constructed
Init ==
  /\ spacy_nlp = FALSE
  /\ hf_ner = FALSE
  /\ InitCallVars
  /\ InitMergeVars
  /\ InitFnVars
  /\ InitConcVars

\* NERService.initialize succeeds
Initialize ==
  /\ pc = "idle"
  /\ ~(spacy_nlp /\ hf_ner)
  /\ spacy_nlp' = TRUE
  /\ hf_ner' = TRUE
  /\ UNCHANGED <<call_vars, merge_vars, fn_vars, conc_vars>>

\* NERService.initialize raises while it builds the Hugging Face pipeline:
\* the spaCy model stays loaded
InitializeFails ==
  /\ pc = "idle"
  /\ ~spacy_nlp
  /\ spacy_nlp' = TRUE
  /\ UNCHANGED <<hf_ner, call_vars, merge_vars, fn_vars, conc_vars>>

\* extract_entities(t, ic) up to its first suspension: the blank-text return,
\* or the awaited call of the NER service
CallExtract ==
  /\ pc = "idle"
  /\ \E t \in Texts, ic \in BOOLEAN :
       /\ text' = t
       /\ include_calendar' = ic
       /\ IF IsBlank(t)
          THEN /\ pc' = "done"
               /\ outcome' = "returned"
               /\ result' = BlankResult
               /\ calls' = <<>>
          ELSE /\ pc' = "ner"
               /\ outcome' = "none"
               /\ result' = NoResult
               /\ calls' = <<"ner_service.extract_entities">>
  /\ ner_call' = NerPending
  /\ error' = "none"
  /\ UNCHANGED <<service_vars, merge_vars, fn_vars, conc_vars>>

\* what the spaCy model may report for a text: nothing, or one PERSON
\* entity over its first or its first two characters
SpacyDocs(t) ==
  {<<>>} \cup {<<[label_ |-> "PERSON", start_char |-> 0, end_char |-> e]>> :
                 e \in 1..Min(2, Len(t))}

\* what the Hugging Face pipeline may report: nothing, or one PER group over
\* the first character that is above or below the threshold, or one without
\* offsets
HfResults(t) ==
  {<<>>,
   <<[word |-> Slice(t, 0, 1), entity_group |-> "PER", start |-> 0, end |-> 1, score |-> 90]>>,
   <<[word |-> Slice(t, 0, 1), entity_group |-> "PER", start |-> 0, end |-> 1, score |-> 40]>>,
   <<[word |-> Slice(t, 0, 1), entity_group |-> "PER", score |-> 90]>>}

\* the ways the awaited NERService.extract_entities(t) may complete: a back
\* end that is not loaded is not called, one that is called may raise
NerCalls(t, nlp, ner) ==
  {NerReturned(ner_extract_entities(t, nlp, ner, ents, results)) :
     ents \in (IF nlp THEN SpacyDocs(t) ELSE {<<>>}),
     results \in (IF ner THEN HfResults(t) ELSE {<<>>})}
  \cup (IF nlp \/ ner THEN {NerRaised} ELSE {})

\* values datetime.now() takes: a Friday morning and the last evening of a year
Nows == {[year |-> 2026, month |-> 11, day |-> 6, tod |-> 570],
         [year |-> 2027, month |-> 12, day |-> 31, tod |-> 1320]}

\* outcomes of dateutil.parser.parse on a date text: an exception, or a
\* timestamp at midnight
DateutilOutcomes(today) == {None, Some([today EXCEPT !.tod = 0])}

\* the clock and dateutil are consulted by _parse_date only: a call that
\* finds no date text reads neither
Clocks(date_found) ==
  IF Len(date_found) = 0
  THEN {<<CHOOSE now \in Nows : TRUE, None>>}
  ELSE {<<now, parsed>> : now \in Nows, parsed \in UNION {DateutilOutcomes(n) : n \in Nows}}

\* the awaited NER call completes and extract_entities runs to its end
NerCompletes ==
  /\ pc = "ner"
  /\ \E completions \in {NerCalls(text, spacy_nlp, hf_ner)},
        email_found \in {email_matches(text)},
        phone_found \in {phone_matches(text)},
        date_found \in {date_matches(text)},
        urls \in {extract_urls(text)},
        times \in {extract_times(text)} :
     \E validate \in [1..Len(email_found) -> EmailOutcomes],
        phonelib \in [1..Len(phone_found) -> PhoneOutcomes],
        clock \in Clocks(date_found) :
     \E emails \in {extract_emails(text, email_found, validate)},
        phones \in {extract_phone_numbers(text, phone_found, phonelib)},
        dates \in {extract_dates(text, date_found, clock[1], clock[2])} :
     \E completion \in completions :
     \E r \in {extract_entities_resume(text, include_calendar, completion,
                  emails, phones, urls, dates, times, clock[1], clock[2])} :
       /\ ner_call' = completion
       /\ outcome' = r.outcome
       /\ error' = r.error
       /\ result' = r.result
       /\ calls' = calls \o r.calls
  /\ pc' = "done"
  /\ UNCHANGED <<text, include_calendar, service_vars, merge_vars, fn_vars, conc_vars>>

\* the caller takes the outcome
Return ==
  /\ pc = "done"
  /\ pc' = "idle"
  /\ text' = <<>>
  /\ include_calendar' = FALSE
  /\ ner_call' = NerPending
  /\ calls' = <<>>
  /\ outcome' = "none"
  /\ error' = "none"
  /\ result' = NoResult
  /\ UNCHANGED <<service_vars, merge_vars, fn_vars, conc_vars>>

Next == Initialize \/ InitializeFails \/ CallExtract \/ NerCompletes \/ Return

Spec == Init /\ [][Next]_vars

\* ------------------------------------------------------------------------
\* Merger specification: _merge_entities applied to bounded entity lists
\* ------------------------------------------------------------------------
Spans == {sp \in (0..MaxPos) \X (0..MaxPos) : sp[1] <= sp[2]}

\* Labels alternate along the concatenated input, so that equal spans with
\* different labels occur in both orders.
LabelOf(oid) == IF oid % 2 = 1 THEN "DATE" ELSE "PERSON"

\* The dictionaries built by _extract_spacy_entities / _extract_hf_entities,
\* reduced to the keys the merger reads or its callers compare; oid stands
\* for the identity of the Python object.
RawEntity(span, source, oid) ==
  [label |-> LabelOf(oid), start |-> span[1], end |-> span[2],
   source |-> source, oid |-> oid]

EntityLists(source, n, first_oid) ==
  {[i \in 1..n |-> RawEntity(f[i], source, first_oid + i - 1)] :
     f \in [1..n -> Spans]}

InitMerge ==
  /\ InitMergeVars
  /\ spacy_nlp = FALSE
  /\ hf_ner = FALSE
  /\ InitCallVars
  /\ InitFnVars
  /\ InitConcVars

\* one call of _merge_entities on freshly built lists
MergeCall ==
  /\ m_pc = "idle"
  /\ \E n \in 0..MaxList : \E k \in 0..n :
       \E a \in EntityLists("spacy", k, 1) :
         \E b \in EntityLists("huggingface", n - k, k + 1) :
           /\ m_spacy' = a
           /\ m_hf' = b
           /\ m_merged' = merge_entities(a, b)
  /\ m_pc' = "merged"
  /\ UNCHANGED <<service_vars, call_vars, fn_vars, conc_vars>>

\* the returned list merged with itself
MergeAgain ==
  /\ m_pc = "merged"
  /\ m_spacy' = m_merged
  /\ m_hf' = m_merged
  /\ m_merged' = merge_entities(m_merged, m_merged)
  /\ m_pc' = "remerged"
  /\ UNCHANGED <<service_vars, call_vars, fn_vars, conc_vars>>

MergeReturn ==
  /\ m_pc \in {"merged", "remerged"}
  /\ m_pc' = "idle"
  /\ m_spacy' = <<>>
  /\ m_hf' = <<>>
  /\ m_merged' = <<>>
  /\ UNCHANGED <<service_vars, call_vars, fn_vars, conc_vars>>

NextMerge == MergeCall \/ MergeAgain \/ MergeReturn

SpecMerge == InitMerge /\ [][NextMerge]_vars

\* ------------------------------------------------------------------------
\* Properties of the merger
\* ------------------------------------------------------------------------
\* overlap of two entity records as the contract words it
Overlap(a, b) == a.start < b.end /\ b.start < a.end

\* concatenated input of the last merger call
MergeInput == m_spacy \o m_hf

InMerged(e) == \E i \in 1..Len(m_merged) : m_merged[i].oid = e.oid

\* C2: the list returned by _merge_entities has no two elements with
\* overlapping spans and is ordered by non-decreasing start.
C2_MergedDisjointSorted ==
  m_pc # "idle" =>
    \A i, j \in 1..Len(m_merged) :
      i < j => /\ ~Overlap(m_merged[i], m_merged[j])
               /\ m_merged[i].start <= m_merged[j].start

\* a call whose input had overlapping entities, one of which was dropped,
\* and which still returned two entities
C2_Witness ==
  /\ m_pc = "merged"
  /\ Len(m_merged) = 2
  /\ Len(MergeInput) = 3
  /\ \E i, j \in 1..3 : i # j /\ Overlap(MergeInput[i], MergeInput[j])

\* C3 as stated: of two overlapping entities with the same start, the one
\* earlier in the concatenated input is kept and the other is discarded.
C3_FirstOfTieAlwaysKept ==
  m_pc = "merged" =>
    \A i, j \in 1..Len(MergeInput) :
      (/\ i < j
       /\ MergeInput[i].start = MergeInput[j].start
       /\ Overlap(MergeInput[i], MergeInput[j]))
      => InMerged(MergeInput[i]) /\ ~InMerged(MergeInput[j])

\* C3 amended: of two overlapping entities with the same start, the later
\* one in the concatenated input is always discarded, and the earlier one is
\* kept unless it overlaps a kept entity that precedes it in the stable
\* start order (smaller start, or same start and earlier in the input).
C3_FirstOfTieKeptUnlessPreceded ==
  m_pc = "merged" =>
    \A i, j \in 1..Len(MergeInput) :
      (/\ i < j
       /\ MergeInput[i].start = MergeInput[j].start
       /\ Overlap(MergeInput[i], MergeInput[j]))
      => /\ ~InMerged(MergeInput[j])
         /\ \/ InMerged(MergeInput[i])
            \/ \E h \in 1..Len(MergeInput) :
                 /\ InMerged(MergeInput[h])
                 /\ Overlap(MergeInput[h], MergeInput[i])
                 /\ \/ MergeInput[h].start < MergeInput[i].start
                    \/ MergeInput[h].start = MergeInput[i].start /\ h < i

\* the two-entity example of the contract: a DATE span and a shorter PERSON
\* span starting at the same offset, DATE first; only DATE is returned
C3_Witness ==
  /\ m_pc = "merged"
  /\ Len(MergeInput) = 2
  /\ MergeInput[1].label = "DATE" /\ MergeInput[2].label = "PERSON"
  /\ MergeInput[1].start = MergeInput[2].start
  /\ MergeInput[2].end < MergeInput[1].end
  /\ Overlap(MergeInput[1], MergeInput[2])
  /\ Len(m_merged) = 1 /\ m_merged[1].label = "DATE"

\* entity i comes before entity j in the stable order by start
Before(i, j) ==
  \/ MergeInput[i].start < MergeInput[j].start
  \/ MergeInput[i].start = MergeInput[j].start /\ i < j

C4_MergeIdempotent ==
  m_pc = "remerged" => m_merged = m_spacy

\* ------------------------------------------------------------------------
\* Properties of extract_entities
\* ------------------------------------------------------------------------
\* blank as the contract words it: empty or whitespace only
WhitespaceOnly(t) == \A i \in 1..Len(t) : t[i] \in Whitespace

\* the call has returned a dictionary
Returned == pc = "done" /\ outcome = "returned"

\* the five pattern recognizers and the synthesizer
AfterNer == {"_extract_emails", "_extract_phone_numbers", "_extract_urls",
             "_extract_dates", "_extract_times", "_extract_calendar_events"}

Called(name) == \E i \in 1..Len(calls) : calls[i] = name

\* C1 as stated: no two entities of a returned entity list have overlapping
\* spans (a.start_pos < b.end_pos and b.start_pos < a.end_pos).
C1_ResultEntitiesDisjoint ==
  (Returned /\ ~WhitespaceOnly(text)) =>
    \A i, j \in 1..Len(result.entities) :
      i # j => ~(/\ result.entities[i].start_pos < result.entities[j].end_pos
                 /\ result.entities[j].start_pos < result.entities[i].end_pos)

\* C5: when the awaited NER call raises, extract_entities ends with that
\* error, returns no dictionary, and has run no recognizer and no synthesizer.
C5_NerFailureIsFatal ==
  (pc = "done" /\ ner_call.state = "raised") =>
    /\ outcome = "raised"
    /\ error = "NerError"
    /\ result = NoResult
    /\ calls = <<"ner_service.extract_entities">>

\* the NER call raised on a text in which the e-mail recognizer would have
\* found an address
C5_Witness ==
  /\ pc = "done"
  /\ ner_call.state = "raised"
  /\ outcome = "raised"
  /\ text = <<"a","@","b",".","c","o">>

\* C6 as stated: with neither back end of the NER service loaded, a call on
\* a non-blank text ends with a failure and not with a result.
C6_UnavailableNerReported ==
  (pc = "done" /\ ~spacy_nlp /\ ~hf_ner /\ ~WhitespaceOnly(text)) =>
    outcome = "raised"

\* C7 as stated: once the NER call has returned, the call returns a complete
\* result whatever happens inside a recognizer; no exception of a recognizer
\* reaches the caller.
C7_RecognizerFailureContained ==
  (pc = "done" /\ \E name \in AfterNer : Called(name)) =>
    /\ outcome = "returned"
    /\ {"entities", "entity_counts", "text_length", "word_count"}
         \subseteq DOMAIN result

\* C8: for empty or whitespace-only text the call returns entities = [] and
\* calendar_events = [] and has called neither the NER service nor a
\* recognizer nor the synthesizer, whatever include_calendar is.
C8_BlankShortCircuits ==
  (pc = "done" /\ WhitespaceOnly(text)) =>
    /\ outcome = "returned"
    /\ {"entities", "calendar_events"} \subseteq DOMAIN result
    /\ result.entities = <<>>
    /\ result.calendar_events = <<>>
    /\ calls = <<>>
    /\ ner_call = NerPending

\* a call on two spaces with include_calendar set has returned
C8_Witness ==
  /\ Returned
  /\ text = <<" ", " ">>
  /\ include_calendar
  /\ result.entities = <<>>
  /\ calls = <<>>

\* C9 as stated: every returned dictionary has the keys entities,
\* entity_counts, text_length and word_count, and has calendar_events
\* exactly when include_calendar is true.
C9_ResultKeys ==
  Returned =>
    /\ {"entities", "entity_counts", "text_length", "word_count"}
         \subseteq DOMAIN result
    /\ ("calendar_events" \in DOMAIN result) <=> include_calendar

\* C10 as stated: every element of the merged list the NER service returned
\* is in the returned entity list with type = label, value = text, the same
\* offsets and metadata source "ner".
C10_NerEntitiesRepresented ==
  (Returned /\ ner_call.state = "returned") =>
    \A i \in 1..Len(ner_call.value.merged_entities) :
      \E j \in 1..Len(result.entities) :
        /\ result.entities[j].type = ner_call.value.merged_entities[i].label
        /\ result.entities[j].value = ner_call.value.merged_entities[i].text
        /\ result.entities[j].start_pos = ner_call.value.merged_entities[i].start
        /\ result.entities[j].end_pos = ner_call.value.merged_entities[i].end
        /\ DictGet(result.entities[j].metadata, "source", "none") = "ner"

\* ------------------------------------------------------------------------
\* Synthesizer specification: _extract_calendar_events applied to a text and
\* to the DATE and TIME entities the recognizers find in it
\* ------------------------------------------------------------------------
\* longest text handed to the synthesizer, counted in pieces
MaxSentencePieces == 3

\* the first piece is longer than the 30 characters of context kept on
\* either side of a DATE or TIME match, and names two event keywords in the
\* reverse of their order in event_keywords
SentencePieces == {
  <<"c","a","l","l"," ","a","b","o","u","t"," ","t","h","e"," ","w","h","o","l","e"," ","p","r","o","d","u","c","t"," ","m","e","e","t","i","n","g"," ","f","o","r"," ">>,
  <<"m","e","e","t","i","n","g"," ","3","p","m">>,
  <<"m","e","e","t","i","n","g">>,
  <<"3","p","m">>,
  <<"t","o","m","o","r","r","o","w">>,
  <<" ">>,
  <<".">>
}

CalendarTexts ==
  {Concat(ps) : ps \in UNION {[1..n -> SentencePieces] : n \in 0..MaxSentencePieces}}

InitFn ==
  /\ InitFnVars
  /\ spacy_nlp = FALSE
  /\ hf_ner = FALSE
  /\ InitCallVars
  /\ InitMergeVars
  /\ InitConcVars

\* one call of _extract_calendar_events as extract_entities makes it
CalendarCall ==
  /\ f_pc = "idle"
  /\ \E t \in CalendarTexts :
     \E date_found \in {date_matches(t)}, times \in {extract_times(t)} :
     \E today \in Nows :
     \E entities \in {extract_dates(t, date_found, today, None) \o times} :
       /\ f_args' = [text |-> t, entities |-> entities, today |-> today]
       /\ f_ret' = extract_calendar_events(t, entities, today, None)
  /\ f_pc' = "returned"
  /\ UNCHANGED <<service_vars, call_vars, merge_vars, conc_vars>>

\* the caller takes the returned value
FnReturn ==
  /\ f_pc = "returned"
  /\ f_pc' = "idle"
  /\ f_args' = NoResult
  /\ f_ret' = NoResult
  /\ UNCHANGED <<service_vars, call_vars, merge_vars, conc_vars>>

NextCalendar == CalendarCall \/ FnReturn

SpecCalendar == InitFn /\ [][NextCalendar]_vars

\* ------------------------------------------------------------------------
\* Properties of the synthesizer
\* ------------------------------------------------------------------------
\* the trimmed non-empty segments of a text split on ".", in text order
Segments(t) ==
  SelectSeq([i \in 1..Len(Split(t, <<".">>)) |-> Strip(Split(t, <<".">>)[i])],
            LAMBDA seg : Len(seg) > 0)

\* the lower-cased sentence contains an event keyword
NamesEvent(sentence) ==
  \E k \in 1..Len(event_keywords) : Contains(Lower(sentence), event_keywords[k])

\* the entity group of a sentence has an entity of the type
GroupHas(sentence, entities, type) ==
  \E i \in 1..Len(entities) :
    /\ entities[i].type = type
    /\ \/ Contains(sentence, entities[i].context)
       \/ Contains(entities[i].context, sentence)

\* keyword present, and a DATE or a TIME entity in the group
Qualifies(sentence, entities) ==
  /\ NamesEvent(sentence)
  /\ GroupHas(sentence, entities, "DATE") \/ GroupHas(sentence, entities, "TIME")

\* C11: a trimmed non-empty sentence has an event exactly when it contains
\* an event keyword and its entity group has a DATE or a TIME entity.
C11_EventIffKeywordAndDateOrTime ==
  f_pc = "returned" =>
    \A s \in 1..Len(Segments(f_args.text)) :
      (\E e \in 1..Len(f_ret) : f_ret[e].source_text = Segments(f_args.text)[s])
      <=> Qualifies(Segments(f_args.text)[s], f_args.entities)

\* a sentence with a keyword and a date has yielded its event
C11_Witness ==
  /\ f_pc = "returned"
  /\ f_args.text = <<"m","e","e","t","i","n","g"," ","t","o","m","o","r","r","o","w">>
  /\ Len(f_ret) = 1

\* C12: an event has confidence 0.7 when its sentence group has a DATE and
\* a TIME entity, and 0.5 otherwise.
C12_ConfidenceByDateAndTime ==
  f_pc = "returned" =>
    \A e \in 1..Len(f_ret) :
      f_ret[e].confidence =
        IF /\ GroupHas(f_ret[e].source_text, f_args.entities, "DATE")
           /\ GroupHas(f_ret[e].source_text, f_args.entities, "TIME")
        THEN 70 ELSE 50

\* a sentence with a keyword, a date and a time has yielded confidence 0.7
C12_Witness ==
  /\ f_pc = "returned"
  /\ f_args.text = <<"m","e","e","t","i","n","g"," ","3","p","m"," ","t","o","m","o","r","r","o","w">>
  /\ Len(f_ret) = 1
  /\ f_ret[1].confidence = 70

\* C13: the events are, in text order, one per qualifying segment; the
\* description and the source text of each are that segment and its
\* end_time is unset.
C13_OneEventPerQualifyingSentence ==
  f_pc = "returned" =>
    LET qualifying == SelectSeq(Segments(f_args.text),
                                LAMBDA seg : Qualifies(seg, f_args.entities))
    IN /\ Len(f_ret) = Len(qualifying)
       /\ \A e \in 1..Len(f_ret) :
            /\ f_ret[e].source_text = qualifying[e]
            /\ f_ret[e].description = qualifying[e]
            /\ f_ret[e].end_time = None

\* two identical qualifying sentences have yielded two events
C13_Witness ==
  /\ f_pc = "returned"
  /\ f_args.text = <<"m","e","e","t","i","n","g"," ","3","p","m",".","m","e","e","t","i","n","g"," ","3","p","m">>
  /\ Len(f_ret) = 2
  /\ f_ret[1].source_text = f_ret[2].source_text

\* group membership as the contract words it: the context of the entity
\* contains the sentence, or the value of the entity appears in the sentence
InGroupAsStated(sentence, entity) ==
  Contains(entity.context, sentence) \/ Contains(sentence, entity.value)

\* C22 as stated: an entity is in the entity group of a sentence exactly when
\* its context contains the sentence or its value appears in the sentence.
\* The group is seen in the entities of the event of the sentence, and in
\* whether a sentence with a keyword has an event at all.
C22_GroupByContextOrValue ==
  f_pc = "returned" =>
    /\ \A e \in 1..Len(f_ret) : \A i \in 1..Len(f_args.entities) :
         (\E j \in 1..Len(f_ret[e].entities) : f_ret[e].entities[j] = f_args.entities[i])
         <=> InGroupAsStated(f_ret[e].source_text, f_args.entities[i])
    /\ \A s \in 1..Len(Segments(f_args.text)) :
         (/\ NamesEvent(Segments(f_args.text)[s])
          /\ \E i \in 1..Len(f_args.entities) :
               /\ f_args.entities[i].type \in {"DATE", "TIME"}
               /\ InGroupAsStated(Segments(f_args.text)[s], f_args.entities[i]))
         => \E e \in 1..Len(f_ret) : f_ret[e].source_text = Segments(f_args.text)[s]

\* ------------------------------------------------------------------------
\* Properties of _extract_event_title, seen in the titles of the events
\* ------------------------------------------------------------------------
\* position in event_keywords of the keyword the title of sentence is built
\* from: the first one of the list that the lower-cased sentence contains
ListFirst(sentence) ==
  CHOOSE k \in 1..Len(event_keywords) :
    /\ Contains(Lower(sentence), event_keywords[k])
    /\ \A j \in 1..(k - 1) : ~Contains(Lower(sentence), event_keywords[j])

\* the lower-cased sentence after the first occurrence of keyword
AfterFirst(sentence, keyword) ==
  Slice(Lower(sentence), Find(Lower(sentence), keyword, 0) + Len(keyword), Len(sentence))

\* C23 as stated: when nothing follows the chosen keyword in the sentence,
\* the title is the title-cased keyword and nothing else.
C23_BareKeywordTitle ==
  f_pc = "returned" =>
    \A e \in 1..Len(f_ret) :
      LET keyword == event_keywords[ListFirst(f_ret[e].source_text)]
      IN Len(Strip(AfterFirst(f_ret[e].source_text, keyword))) = 0
           => f_ret[e].title = Title(keyword)

\* C24 as stated: the title is the title-cased keyword, a space and the
\* first 50 characters of the trimmed lower-cased rest of the sentence after
\* the first occurrence of the keyword, and has at most len(keyword) + 51
\* characters.
C24_TitleFromRestOfSentence ==
  f_pc = "returned" =>
    \A e \in 1..Len(f_ret) :
      LET keyword == event_keywords[ListFirst(f_ret[e].source_text)]
      IN /\ f_ret[e].title =
              Title(keyword) \o <<" ">>
                \o Slice(Strip(AfterFirst(f_ret[e].source_text, keyword)), 0, 50)
         /\ Len(f_ret[e].title) <= Len(keyword) + 51

OfType(event, type) == SelectSeq(event.entities, LAMBDA x : x.type = type)

\* the calendar day of a timestamp at the time of day tod, in minutes since
\* midnight; a date without a time of day is the day at 0
DayAt(dt, tod) == [year |-> dt.year, month |-> dt.month, day |-> dt.day, tod |-> tod]

\* C25 as stated: start_time is unset without a DATE entity; otherwise it
\* is the day the first DATE entity resolved to, at the time of day of the
\* first TIME entity when that parses, and with no time of day when there
\* is no TIME entity or the first one does not parse.
C25_StartTimeFromDateAndTime ==
  f_pc = "returned" =>
    \A e \in 1..Len(f_ret) :
      LET dates == OfType(f_ret[e], "DATE")
          times == OfType(f_ret[e], "TIME")
          resolved == FromIsoFormat(dates[1].metadata.parsed_date)
      IN IF Len(dates) = 0 THEN f_ret[e].start_time = None
         ELSE IF Len(times) > 0 /\ ParseTimeOfDay(times[1].value).ok
           THEN f_ret[e].start_time =
                  Some(DayAt(resolved, ParseTimeOfDay(times[1].value).value))
         ELSE f_ret[e].start_time = Some(DayAt(resolved, 0))

\* ------------------------------------------------------------------------
\* Date resolution specification: _parse_date applied to date texts on the
\* days around the end of a year and around a leap day
\* ------------------------------------------------------------------------
\* days after each first day on which _parse_date is called
MaxDaysAhead == 6

FirstDays == {[year |-> 2027, month |-> 12, day |-> 27, tod |-> 570],
              [year |-> 2028, month |-> 2, day |-> 25, tod |-> 1320]}

Todays == {AddDays(first, k) : first \in FirstDays, k \in 0..MaxDaysAhead}

DateTexts ==
  {weekdays[i] : i \in 1..Len(weekdays)}
  \cup {Title(weekdays[i]) : i \in 1..Len(weekdays)}
  \cup {<<"t","o","m","o","r","r","o","w">>, <<"y","e","s","t","e","r","d","a","y">>, <<"n","e","x","t"," ","w","e","e","k">>,
        <<"n","e","x","t"," ","m","o","n","t","h">>, <<"n","e","x","t"," ","y","e","a","r">>, <<"n","e","x","t"," ","f","r","i","d","a","y">>,
        <<"1","2","/","2","5","/","2","0","2","7">>,
        <<"m","o","n","d","a","y"," ","t","o","m","o","r","r","o","w">>,
        <<"y","e","s","t","e","r","d","a","y"," ","t","o","m","o","r","r","o","w">>,
        <<"s","u","n","d","a","y"," ","m","o","n","d","a","y">>,
        <<"n","e","x","t"," ","y","e","a","r"," ","n","e","x","t"," ","w","e","e","k">>}

\* one call of _parse_date
ParseDateCall ==
  /\ f_pc = "idle"
  /\ \E date_text \in DateTexts, today \in Todays :
     \E dateutil \in DateutilOutcomes(today) :
       /\ f_args' = [date_text |-> date_text, today |-> today, dateutil |-> dateutil]
       /\ f_ret' = parse_date(date_text, today, dateutil)
  /\ f_pc' = "returned"
  /\ UNCHANGED <<service_vars, call_vars, merge_vars, conc_vars>>

NextParseDate == ParseDateCall \/ FnReturn

SpecParseDate == InitFn /\ [][NextParseDate]_vars

\* ------------------------------------------------------------------------
\* Properties of _parse_date
\* ------------------------------------------------------------------------
\* index of a bare weekday name, Monday = 0; -1 for any other text
BareWeekday(date_text) ==
  IF \E i \in 1..Len(weekdays) : Lower(date_text) = weekdays[i]
  THEN (CHOOSE i \in 1..Len(weekdays) : Lower(date_text) = weekdays[i]) - 1
  ELSE -1

\* C14: a bare weekday name d resolves to today + k days with 1 <= k <= 7
\* and (w + k) mod 7 = d, w being today's weekday; k = 7 exactly when d = w.
C14_WeekdayStrictlyAhead ==
  (f_pc = "returned" /\ BareWeekday(f_args.date_text) >= 0) =>
    /\ f_ret.ok
    /\ \E k \in 1..7 :
         /\ f_ret.value = AddDays(f_args.today, k)
         /\ (Weekday(f_args.today) + k) % 7 = BareWeekday(f_args.date_text)
         /\ (k = 7) <=> (Weekday(f_args.today) = BareWeekday(f_args.date_text))

\* "tuesday" asked on Tuesday 2028-02-29 has resolved to 2028-03-07
C14_Witness ==
  /\ f_pc = "returned"
  /\ f_args.date_text = <<"t","u","e","s","d","a","y">>
  /\ f_args.today = [year |-> 2028, month |-> 2, day |-> 29, tod |-> 1320]
  /\ f_ret = Some([year |-> 2028, month |-> 3, day |-> 7, tod |-> 1320])

\* what the rules of _parse_date look for, in the order of the rules
RuleKeys ==
  <<<<"t","o","m","o","r","r","o","w">>,
    <<"y","e","s","t","e","r","d","a","y">>,
    <<"n","e","x","t"," ","w","e","e","k">>,
    <<"n","e","x","t"," ","m","o","n","t","h">>,
    <<"n","e","x","t"," ","y","e","a","r">>>> \o weekdays

\* the first rule whose key the lower-cased text contains, 0 if none does
DecidingRule(date_text) ==
  LET hits == {k \in 1..Len(RuleKeys) : Contains(Lower(date_text), RuleKeys[k])}
  IN IF hits = {} THEN 0 ELSE CHOOSE k \in hits : \A j \in hits : k <= j

\* C26: the first rule in the order tomorrow, yesterday, next week, next
\* month, next year, Monday .. Sunday whose key the text contains decides
\* the result, and the fuzzy parser decides only when no key is contained.
C26_FirstRuleDecides ==
  f_pc = "returned" =>
    LET k == DecidingRule(f_args.date_text)
        today == f_args.today
    IN CASE k = 0 -> f_ret = f_args.dateutil
         [] k = 1 -> f_ret = Some(AddDays(today, 1))
         [] k = 2 -> f_ret = Some(AddDays(today, -1))
         [] k = 3 -> f_ret = Some(AddDays(today, 7))
         [] k = 4 -> f_ret = Some(AddMonth(today))
         [] k = 5 -> f_ret = Some(AddYear(today))
         [] OTHER -> /\ f_ret.ok
                     /\ \E n \in 1..7 : /\ f_ret.value = AddDays(today, n)
                                        /\ Weekday(f_ret.value) = k - 6

\* "monday tomorrow" asked on a Friday has resolved to the Saturday
C26_Witness ==
  /\ f_pc = "returned"
  /\ f_args.date_text = <<"m","o","n","d","a","y"," ","t","o","m","o","r","r","o","w">>
  /\ f_args.today = [year |-> 2027, month |-> 12, day |-> 31, tod |-> 570]
  /\ f_ret = Some([year |-> 2028, month |-> 1, day |-> 1, tod |-> 570])

\* ------------------------------------------------------------------------
\* E-mail recognizer specification: _extract_emails applied to texts with
\* addresses, under every outcome of the validator
\* ------------------------------------------------------------------------
\* longest text handed to the e-mail recognizer, counted in pieces
MaxEmailPieces == 3

EmailPieces == {
  <<"a","@","b",".","c","o">>,
  <<"A","@","B",".","C","O">>,
  <<"m","a","i","l">>,
  <<"@">>,
  <<" ">>
}

EmailTexts ==
  {Concat(ps) : ps \in UNION {[1..n -> EmailPieces] : n \in 0..MaxEmailPieces}}

\* one call of _extract_emails
EmailsCall ==
  /\ f_pc = "idle"
  /\ \E t \in EmailTexts :
     \E found \in {email_matches(t)} :
     \E validate \in [1..Len(found) -> EmailOutcomes] :
       /\ f_args' = [text |-> t, validate |-> validate]
       /\ f_ret' = extract_emails(t, found, validate)
  /\ f_pc' = "returned"
  /\ UNCHANGED <<service_vars, call_vars, merge_vars, conc_vars>>

NextEmails == EmailsCall \/ FnReturn

SpecEmails == InitFn /\ [][NextEmails]_vars

\* ------------------------------------------------------------------------
\* Properties of _extract_emails
\* ------------------------------------------------------------------------
\* the i-th entity is an EMAIL entity over the i-th match, with the
\* confidence, flag and value the validator's verdict calls for
EmailEntityFor(entity, t, match, verdict) ==
  /\ entity.type = "EMAIL"
  /\ entity.start_pos = match.start
  /\ entity.end_pos = match.end
  /\ verdict = "valid" => entity.confidence = 90 /\ entity.metadata.validated = TRUE
  /\ verdict = "invalid" =>
       /\ entity.confidence = 50
       /\ entity.metadata.validated = FALSE
       /\ entity.value = SubSeq(t, match.start + 1, match.end)

MaxPhonePieces == 3

PhonePieces == {
  <<"1","2","3","-","4","5","6","-","7","8","9","0">>,
  <<"6","5","0",".","2","5","3",".","0","0","0","0">>,
  <<"6","5","0","2","5","3","0","0","0","0">>,
  <<"c","a","l","l">>,
  <<" ">>
}

PhoneTexts ==
  {Concat(ps) : ps \in UNION {[1..n -> PhonePieces] : n \in 0..MaxPhonePieces}}

\* one call of _extract_phone_numbers
PhonesCall ==
  /\ f_pc = "idle"
  /\ \E t \in PhoneTexts :
     \E found \in {phone_matches(t)} :
     \E phonelib \in [1..Len(found) -> PhoneOutcomes] :
       /\ f_args' = [text |-> t, found |-> found, phonelib |-> phonelib]
       /\ f_ret' = extract_phone_numbers(t, found, phonelib)
  /\ f_pc' = "returned"
  /\ UNCHANGED <<service_vars, call_vars, merge_vars, conc_vars>>

NextPhones == PhonesCall \/ FnReturn

SpecPhones == InitFn /\ [][NextPhones]_vars

\* ------------------------------------------------------------------------
\* Properties of _extract_phone_numbers
\* ------------------------------------------------------------------------
\* C16 as stated: every match of a phone pattern yields a PHONE entity over
\* the match: confidence 0.9 for a number that parses and is valid, and the
\* matched text with confidence 0.6 for a number that fails validation,
\* whether parsing raises or the parsed number is not valid.
C16_NoPhoneMatchDropped ==
  f_pc = "returned" =>
    /\ Len(f_ret) = Len(f_args.found)
    /\ \A i \in 1..Len(f_ret) :
         /\ f_ret[i].type = "PHONE"
         /\ f_ret[i].start_pos = f_args.found[i].start
         /\ f_ret[i].end_pos = f_args.found[i].end
         /\ f_args.phonelib[i] = "valid" => f_ret[i].confidence = 90
         /\ f_args.phonelib[i] # "valid" =>
              /\ f_ret[i].confidence = 60
              /\ f_ret[i].value = SubSeq(f_args.text, f_args.found[i].start + 1,
                                         f_args.found[i].end)

\* ------------------------------------------------------------------------
\* EntityExtractionService.extract_action_items
\* ------------------------------------------------------------------------
\* [^.!?]
TailChar == NoneOf({".", "!", "?"})

\* action_patterns up to their capture group ([^.!?]+), which ends each
action_frames == <<
  WB \o Alt(<<Lit(<<"n","e","e","d"," ","t","o">>),
                 Lit(<<"s","h","o","u","l","d">>),
                 Lit(<<"m","u","s","t">>),
                 Lit(<<"h","a","v","e"," ","t","o">>),
                 Lit(<<"r","e","m","e","m","b","e","r"," ","t","o">>),
                 Lit(<<"d","o","n","'","t"," ","f","o","r","g","e","t"," ","t","o">>)>>) \o WS1,
  WB \o Alt(<<Lit(<<"t","o","d","o">>),
                 Lit(<<"t","o"," ","d","o">>),
                 Lit(<<"t","a","s","k">>),
                 Lit(<<"a","c","t","i","o","n"," ","i","t","e","m">>)>>) \o Lit(<<":">>) \o WS0,
  WB \o Alt(<<Lit(<<"f","o","l","l","o","w"," ","u","p">>),
                 Lit(<<"r","e","a","c","h"," ","o","u","t">>),
                 Lit(<<"c","o","n","t","a","c","t">>),
                 Lit(<<"c","a","l","l">>),
                 Lit(<<"e","m","a","i","l">>)>>) \o WS1,
  WB \o Alt(<<Lit(<<"s","c","h","e","d","u","l","e">>),
                 Lit(<<"b","o","o","k">>),
                 Lit(<<"s","e","t"," ","u","p">>),
                 Lit(<<"a","r","r","a","n","g","e">>)>>) \o WS1,
  WB \o Alt(<<Lit(<<"r","e","v","i","e","w">>),
                 Lit(<<"c","h","e","c","k">>),
                 Lit(<<"v","e","r","i","f","y">>),
                 Lit(<<"c","o","n","f","i","r","m">>)>>) \o WS1
>>

\* match.start(1): the capture group is followed by nothing, and once it has
\* one character it cannot fail, so it starts where the frame followed by one
\* such character first matches
group_start(frame, t, m) == MatchAt(frame \o TailChar, m.start, t, TRUE) - 1

\* extract_action_items: now is datetime.now()
extract_action_items(t, now) ==
  LET of_frame(p) ==
        LET ms == FindIter(action_frames[p] \o Plus(TailChar), t, TRUE)
            one(i) ==
              LET action_text ==
                    Strip(Slice(t, group_start(action_frames[p], t, ms[i]),
                                ms[i].end))
              IN IF Len(action_text) > 0
                 THEN <<[text |-> action_text,
                         full_context |-> MatchText(t, ms[i]),
                         confidence |-> 80,
                         type |-> "action_item",
                         extracted_at |-> IsoFormat(now)]>>
                 ELSE <<>>
        IN Concat([i \in 1..Len(ms) |-> one(i)])
  IN Concat([p \in 1..Len(action_frames) |-> of_frame(p)])

\* ------------------------------------------------------------------------
\* Action item specification: extract_action_items applied to instructions
\* ------------------------------------------------------------------------
\* longest text handed to extract_action_items, counted in pieces
MaxActionPieces == 4

ActionPieces == {
  <<"I"," ">>,
  <<"n","e","e","d"," ","t","o"," ">>,
  <<"c","a","l","l"," ">>,
  <<"J","o","h","n"," ","t","o","m","o","r","r","o","w">>,
  <<".">>
}

ActionTexts ==
  {Concat(ps) : ps \in UNION {[1..n -> ActionPieces] : n \in 0..MaxActionPieces}}

\* one call of extract_action_items
ActionItemsCall ==
  /\ f_pc = "idle"
  /\ \E t \in ActionTexts, now \in Nows :
       /\ f_args' = [text |-> t, now |-> now]
       /\ f_ret' = extract_action_items(t, now)
  /\ f_pc' = "returned"
  /\ UNCHANGED <<service_vars, call_vars, merge_vars, conc_vars>>

NextActions == ActionItemsCall \/ FnReturn

SpecActions == InitFn /\ [][NextActions]_vars

\* ------------------------------------------------------------------------
\* Properties of extract_action_items
\* ------------------------------------------------------------------------
\* C17 as stated: "I need to call John tomorrow" yields exactly one action
\* item, with text "call John tomorrow", type action_item and confidence 0.8.
C17_OneItemPerInstruction ==
  (f_pc = "returned" /\ f_args.text = <<"I"," ","n","e","e","d"," ","t","o"," ","c","a","l","l"," ","J","o","h","n"," ","t","o","m","o","r","r","o","w">>) =>
    /\ Len(f_ret) = 1
    /\ f_ret[1].text = <<"c","a","l","l"," ","J","o","h","n"," ","t","o","m","o","r","r","o","w">>
    /\ f_ret[1].type = "action_item"
    /\ f_ret[1].confidence = 80

RECURSIVE Total(_, _)
Total(d, keys) ==
  IF keys = {} THEN 0
  ELSE LET k == CHOOSE x \in keys : TRUE IN d[k] + Total(d, keys \ {k})

\* whitespace-separated tokens of t, counted by their last characters
Tokens(t) ==
  {i \in 1..Len(t) : t[i] \notin Whitespace /\ (i = Len(t) \/ t[i+1] \in Whitespace)}

\* C20: in a result for non-blank text, entity_counts maps every type that
\* occurs in entities to the number of entities of that type and has no
\* other key, the counts add up to len(entities), text_length is len(text)
\* and word_count is the number of whitespace-separated tokens of text.
C20_CountsMatchEntities ==
  (Returned /\ ~WhitespaceOnly(text)) =>
    /\ \A i \in 1..Len(result.entities) :
         result.entities[i].type \in DOMAIN result.entity_counts
    /\ \A t \in DOMAIN result.entity_counts :
         /\ result.entity_counts[t] > 0
         /\ result.entity_counts[t] =
              Cardinality({i \in 1..Len(result.entities) : result.entities[i].type = t})
    /\ Total(result.entity_counts, DOMAIN result.entity_counts) = Len(result.entities)
    /\ result.text_length = Len(text)
    /\ result.word_count = Cardinality(Tokens(text))

\* a result over several words with one type found twice
C20_Witness ==
  /\ Returned
  /\ ~WhitespaceOnly(text)
  /\ \E t \in DOMAIN result.entity_counts : result.entity_counts[t] >= 2
  /\ result.word_count >= 2

\* ------------------------------------------------------------------------
\* Concurrent specification: extract_entities coroutines of several callers
\* on one EntityExtractionService, each suspended at most at its awaited
\* call of the NER service
\* ------------------------------------------------------------------------
Callers == {"a", "b"}

ConcTexts == {<<" ">>, <<"a","t"," ","3","p","m">>, <<"a","@","b",".","c","o">>}

\* A service that keeps text and include_calendar in attributes of the
\* instance: every call works on the same ones.
InstanceHome(c) == "a"

\* where the names text, include_calendar, ner_results, entities and result
\* of call c live: they are parameters and local variables of
\* extract_entities, so in the frame of that call
Home(c) == c

\* both services as __init__ or initialize left them, and no call made
InitConcurrent ==
  /\ \E loaded \in {<<FALSE, FALSE>>, <<TRUE, FALSE>>, <<TRUE, TRUE>>} :
       /\ spacy_nlp = loaded[1]
       /\ hf_ner = loaded[2]
  /\ InitCallVars
  /\ InitMergeVars
  /\ InitFnVars
  /\ c_frames = [c \in Callers |-> NoResult]
  /\ c_given = [c \in Callers |-> NoResult]
  /\ c_out = [c \in Callers |-> [pc |-> "idle", ended |-> NoResult]]

\* caller c calls extract_entities(t, ic), which runs to the blank-text
\* return or to the awaited call of the NER service
ConcCall(c) ==
  /\ c_out[c].pc = "idle"
  /\ \E t \in ConcTexts, ic \in BOOLEAN :
       /\ c_frames' = [c_frames EXCEPT ![Home(c)] = [text |-> t, include_calendar |-> ic]]
       /\ c_given' = [c_given EXCEPT ![c] = [text |-> t, include_calendar |-> ic]]
       /\ c_out' = [c_out EXCEPT ![c] =
                      IF IsBlank(c_frames'[Home(c)].text)
                      THEN [pc |-> "done", ended |-> Returns(<<>>, BlankResult)]
                      ELSE [pc |-> "ner", ended |-> NoResult]]
  /\ UNCHANGED <<service_vars, call_vars, merge_vars, fn_vars>>

\* the NER call awaited by c completes and c runs to its end: lines 97-145
\* with the names of the frame of c
ConcNerCompletes(c) ==
  /\ c_out[c].pc = "ner"
  /\ \E t \in {c_frames[Home(c)].text} :
     \E completions \in {NerCalls(t, spacy_nlp, hf_ner)},
        email_found \in {email_matches(t)},
        phone_found \in {phone_matches(t)},
        date_found \in {date_matches(t)},
        urls \in {extract_urls(t)},
        times \in {extract_times(t)} :
     \E validate \in [1..Len(email_found) -> EmailOutcomes],
        phonelib \in [1..Len(phone_found) -> PhoneOutcomes],
        clock \in Clocks(date_found) :
     \E emails \in {extract_emails(t, email_found, validate)},
        phones \in {extract_phone_numbers(t, phone_found, phonelib)},
        dates \in {extract_dates(t, date_found, clock[1], clock[2])} :
     \E completion \in completions :
       /\ c_out' = [c_out EXCEPT ![c] =
            [pc |-> "done",
             ended |-> extract_entities_resume(t, c_frames[Home(c)].include_calendar,
                         completion, emails, phones, urls, dates, times,
                         clock[1], clock[2])]]
       /\ c_given' = [c_given EXCEPT ![c] =
            [text |-> c_given[c].text,
             include_calendar |-> c_given[c].include_calendar,
             completion |-> completion, validate |-> validate,
             phonelib |-> phonelib, clock |-> clock,
             during |-> {d \in Callers \ {c} : c_out[d].pc = "ner"}]]
  /\ UNCHANGED <<c_frames, service_vars, call_vars, merge_vars, fn_vars>>

\* caller c takes the outcome and the frame is gone
ConcReturn(c) ==
  /\ c_out[c].pc = "done"
  /\ c_out' = [c_out EXCEPT ![c] = [pc |-> "idle", ended |-> NoResult]]
  /\ c_given' = [c_given EXCEPT ![c] = NoResult]
  /\ c_frames' = [c_frames EXCEPT ![Home(c)] = NoResult]
  /\ UNCHANGED <<service_vars, call_vars, merge_vars, fn_vars>>

NextConcurrent ==
  \E c \in Callers : ConcCall(c) \/ ConcNerCompletes(c) \/ ConcReturn(c)

SpecConcurrent == InitConcurrent /\ [][NextConcurrent]_vars

\* ------------------------------------------------------------------------
\* Properties of concurrent calls
\* ------------------------------------------------------------------------
\* what one call returns or raises when no other call is made, for the
\* arguments, the NER completion and the library outcomes in given
Alone(given) ==
  IF WhitespaceOnly(given.text) THEN Returns(<<>>, BlankResult)
  ELSE extract_entities_resume(given.text, given.include_calendar, given.completion,
         extract_emails(given.text, email_matches(given.text), given.validate),
         extract_phone_numbers(given.text, phone_matches(given.text), given.phonelib),
         extract_urls(given.text),
         extract_dates(given.text, date_matches(given.text), given.clock[1], given.clock[2]),
         extract_times(given.text), given.clock[1], given.clock[2])

\* the libraries were consulted once for every e-mail and phone match of the
\* text the call was given
ConsultedForOwnText(given) ==
  \/ WhitespaceOnly(given.text)
  \/ /\ DOMAIN given.validate = 1..Len(email_matches(given.text))
     /\ DOMAIN given.phonelib = 1..Len(phone_matches(given.text))

\* C19: a call of extract_entities ends as it would have ended alone,
\* whatever other calls ran while it was suspended at its awaited NER call,
\* and no step of a call changes a field of either service.
C19_ConcurrentCallsIndependent ==
  /\ [](\A c \in Callers : c_out[c].pc = "done" => (ConsultedForOwnText(c_given[c]) /\ c_out[c].ended = Alone(c_given[c])))
  /\ [][spacy_nlp' = spacy_nlp /\ hf_ner' = hf_ner]_vars

\* callers a and b called with different texts, b ran to its end while a
\* was suspended at its NER call, then a ran to its end
C19_Witness ==
  /\ c_out["a"].pc = "done"
  /\ c_out["b"].pc = "done"
  /\ "during" \in DOMAIN c_given["b"]
  /\ "a" \in c_given["b"].during
  /\ c_given["a"].text = <<"a","t"," ","3","p","m">>
  /\ c_given["b"].text = <<"a","@","b",".","c","o">>
  /\ c_out["a"].ended.outcome = "returned"
  /\ c_out["b"].ended.outcome = "returned"
  /\ Len(c_out["a"].ended.result.entities) > 0
  /\ Len(c_out["b"].ended.result.entities) > 0

\* ------------------------------------------------------------------------
\* Date recognizer specification: _extract_dates applied to texts with
\* relative and numeric dates, whether or not dateutil can read them
\* ------------------------------------------------------------------------
\* longest text handed to the date recognizer, counted in pieces
MaxDatePieces == 3

DatePieces == {
  <<"t","o","m","o","r","r","o","w">>,
  <<"i","n"," ","3"," ","d","a","y","s">>,
  <<"1","2","/","2","5","/","2","0","2","7">>,
  <<" ">>
}

DateRecognizerTexts ==
  {Concat(ps) : ps \in UNION {[1..n -> DatePieces] : n \in 0..MaxDatePieces}}

\* one call of _extract_dates; resolved is what _parse_date returned for each
\* match, None standing for None and for an exception it swallowed
DatesCall ==
  /\ f_pc = "idle"
  /\ \E t \in DateRecognizerTexts :
     \E found \in {date_matches(t)} :
     \E clock \in Clocks(found) :
       /\ f_args' = [text |-> t, found |-> found,
                     resolved |-> [i \in 1..Len(found) |->
                                     parse_date(MatchText(t, found[i]), clock[1], clock[2])]]
       /\ f_ret' = extract_dates(t, found, clock[1], clock[2])
  /\ f_pc' = "returned"
  /\ UNCHANGED <<service_vars, call_vars, merge_vars, conc_vars>>

NextDates == DatesCall \/ FnReturn

SpecDates == InitFn /\ [][NextDates]_vars

\* ------------------------------------------------------------------------
\* Properties of _extract_dates
\* ------------------------------------------------------------------------
\* the matches _parse_date resolved, in the order they were found
ResolvedMatches ==
  SelectSeq([i \in 1..Len(f_args.found) |-> i], LAMBDA i : f_args.resolved[i].ok)

\* C27: _extract_dates returns one DATE entity for each match that
\* _parse_date resolved and none for the others; each entity has the matched
\* text as value, confidence 0.8 and the resolved timestamp in
\* metadata.parsed_date.
C27_UnresolvedDatesDropped ==
  f_pc = "returned" =>
    /\ Len(f_ret) = Len(ResolvedMatches)
    /\ \A n \in 1..Len(f_ret) :
         LET i == ResolvedMatches[n]
         IN /\ f_ret[n].type = "DATE"
            /\ f_ret[n].value = Slice(f_args.text, f_args.found[i].start, f_args.found[i].end)
            /\ f_ret[n].start_pos = f_args.found[i].start
            /\ f_ret[n].confidence = 80
            /\ "parsed_date" \in DOMAIN f_ret[n].metadata
            /\ f_ret[n].metadata.parsed_date = IsoFormat(f_args.resolved[i].value)

\* two matches, of which dateutil could not read the numeric one: only the
\* relative date is reported
C27_Witness ==
  /\ f_pc = "returned"
  /\ f_args.text = <<"1","2","/","2","5","/","2","0","2","7"," ","t","o","m","o","r","r","o","w">>
  /\ Len(f_args.found) = 2
  /\ Len(f_ret) = 1
  /\ f_ret[1].value = <<"t","o","m","o","r","r","o","w">>

\* ------------------------------------------------------------------------
\* The entity routes: POST /extract, /calendar-events and /action-items
\* ------------------------------------------------------------------------
\* HTTPException(status_code, detail) and the other exceptions a handler sees
HTTPException(status_code, detail) ==
  [exc |-> "HTTPException", status_code |-> status_code, detail |-> detail]
AttributeError == [exc |-> "AttributeError"]
TypeError == [exc |-> "TypeError"]
ServiceError == [exc |-> "ServiceError"]

\* what a try block does: it raises, or it returns a JSONResponse
Raise(e) == [raised |-> TRUE, exc |-> e]
JSONResponse(content) == [raised |-> FALSE, content |-> content]

\* "entity_service = request.app.state.entity" and the test that follows;
\* entity tells whether the attribute was never set, holds None or holds
\* the service
entity_lookup(entity) ==
  IF entity = "unset" THEN Raise(AttributeError)
  ELSE IF entity = "none"
    THEN Raise(HTTPException(503, "Entity extraction service not available"))
  ELSE JSONResponse(NoResult)

\* json.dumps of a list of CalendarEvent.__dict__: each holds the
\* ExtractedEntity objects of its group, which json cannot encode
Encodable(calendar_events) == Len(calendar_events) = 0

\* the try block of POST /extract after the lookup; called is how the
\* awaited entity_service.extract_entities ended
extract_body(extraction_request, called) ==
  IF called.raised THEN called
  ELSE
    LET result_dict == called.content
        entities == result_dict.entities
        wanted == extraction_request.entity_types
        filtered_entities ==
          SelectSeq(entities, LAMBDA entity :
            \E i \in 1..Len(wanted.value) : wanted.value[i] = entity.type)
        types == {wanted.value[i] : i \in 1..Len(wanted.value)}
        filtered ==
          [k \in DOMAIN result_dict \cup {"entities", "entity_counts"} |->
             IF k = "entities" THEN filtered_entities
             ELSE IF k = "entity_counts"
               THEN [t \in types |->
                       Cardinality({i \in 1..Len(filtered_entities) :
                                      filtered_entities[i].type = t})]
             ELSE result_dict[k]]
        shown == IF wanted.ok /\ Len(wanted.value) > 0 THEN filtered ELSE result_dict
    IN IF ~Encodable(DictGet(shown, "calendar_events", <<>>)) THEN Raise(TypeError)
       ELSE JSONResponse([success |-> TRUE,
                          extraction_result |-> shown,
                          text_length |-> Len(extraction_request.text)])

\* the try block of POST /calendar-events after the lookup
calendar_events_body(calendar_request, called) ==
  IF called.raised THEN called
  ELSE
    LET calendar_events == DictGet(called.content, "calendar_events", <<>>)
    IN IF ~Encodable(calendar_events) THEN Raise(TypeError)
       ELSE JSONResponse([success |-> TRUE,
                          calendar_events |-> calendar_events,
                          event_count |-> Len(calendar_events),
                          text_length |-> Len(calendar_request.text),
                          context |-> calendar_request.context])

\* the try block of POST /action-items after the lookup; a threshold of
\* None cannot be compared with a confidence
action_items_body(action_request, called) ==
  IF called.raised THEN called
  ELSE
    LET action_items == called.content
        threshold == action_request.priority_threshold
        filtered_items ==
          SelectSeq(action_items, LAMBDA item : item.confidence >= threshold.value)
    IN IF ~threshold.ok /\ Len(action_items) > 0 THEN Raise(TypeError)
       ELSE JSONResponse([success |-> TRUE,
                          action_items |-> IF threshold.ok THEN filtered_items ELSE <<>>,
                          total_found |-> Len(action_items),
                          filtered_count |-> IF threshold.ok THEN Len(filtered_items) ELSE 0,
                          priority_threshold |-> threshold,
                          text_length |-> Len(action_request.text)])

\* the text each handler puts before str(e)
failed_detail ==
  [route \in {"/extract", "/calendar-events", "/action-items"} |->
     CASE route = "/extract" -> "Entity extraction failed: "
       [] route = "/calendar-events" -> "Calendar event extraction failed: "
       [] OTHER -> "Action item extraction failed: "]

\* one handler from its try to the response FastAPI sends: "except Exception"
\* catches whatever the try block raised, HTTPException included, and raises
\* HTTPException(500, prefix + str(e))
handle(route, entity, request, called) ==
  LET found == entity_lookup(entity)
      tried ==
        IF found.raised THEN found
        ELSE CASE route = "/extract" -> extract_body(request, called)
               [] route = "/calendar-events" -> calendar_events_body(request, called)
               [] OTHER -> action_items_body(request, called)
  IN IF tried.raised
     THEN [status_code |-> 500, detail |-> <<failed_detail[route], tried.exc>>]
     ELSE [status_code |-> 200, content |-> tried.content]

\* ------------------------------------------------------------------------
\* Route specification: the three handlers under every state of
\* app.state.entity and every way the service call may end
\* ------------------------------------------------------------------------
RouteTexts == {<<>>, <<"c","a","l","l"," ","J","o","h","n"," ","a","t"," ","3","p","m",".">>, <<"m","e","e","t","i","n","g"," ","3","p","m">>}

\* the bodies of the three request models
ExtractionRequests ==
  [text : RouteTexts, include_calendar : BOOLEAN,
   entity_types : {None, Some(<<>>), Some(<<"TIME">>), Some(<<"TIME", "URL">>)}]
CalendarRequests == [text : RouteTexts, context : {None, Some(<<"c">>)}]
ActionRequests == [text : RouteTexts, priority_threshold : {None, Some(50), Some(90)}]

\* ways entity_service.extract_entities(t, ic) may end for the route: it
\* raises, or returns what the recognizers find when the NER service finds
\* nothing and every library call succeeds
ExtractionsFor(t, ic) ==
  {Raise(ServiceError)} \cup
  {IF IsBlank(t) THEN JSONResponse(BlankResult)
   ELSE JSONResponse(
     run_recognizers(t, ic, NoResult,
       extract_emails(t, email_matches(t), [i \in 1..Len(email_matches(t)) |-> "valid"]),
       extract_phone_numbers(t, phone_matches(t),
                             [i \in 1..Len(phone_matches(t)) |-> "valid"]),
       extract_urls(t), extract_dates(t, date_matches(t), now, None),
       extract_times(t), now, None).result) : now \in Nows}

\* ways entity_service.extract_action_items(t) may end
ActionItemsFor(t) ==
  {Raise(ServiceError)} \cup {JSONResponse(extract_action_items(t, now)) : now \in Nows}

\* the service call is made only when the lookup found the service
IfAvailable(entity, outcomes) ==
  IF entity = "service" THEN outcomes ELSE {JSONResponse(NoResult)}

\* one request to one of the three routes
RouteCall ==
  /\ f_pc = "idle"
  /\ \E entity \in {"unset", "none", "service"} :
       \/ \E request \in ExtractionRequests :
          \E called \in IfAvailable(entity, ExtractionsFor(request.text, request.include_calendar)) :
            /\ f_args' = [route |-> "/extract", entity |-> entity,
                          request |-> request, called |-> called]
            /\ f_ret' = handle("/extract", entity, request, called)
       \/ \E request \in CalendarRequests :
          \E called \in IfAvailable(entity, ExtractionsFor(request.text, TRUE)) :
            /\ f_args' = [route |-> "/calendar-events", entity |-> entity,
                          request |-> request, called |-> called]
            /\ f_ret' = handle("/calendar-events", entity, request, called)
       \/ \E request \in ActionRequests :
          \E called \in IfAvailable(entity, ActionItemsFor(request.text)) :
            /\ f_args' = [route |-> "/action-items", entity |-> entity,
                          request |-> request, called |-> called]
            /\ f_ret' = handle("/action-items", entity, request, called)
  /\ f_pc' = "returned"
  /\ UNCHANGED <<service_vars, call_vars, merge_vars, conc_vars>>

NextRoutes == RouteCall \/ FnReturn

SpecRoutes == InitFn /\ [][NextRoutes]_vars

\* ------------------------------------------------------------------------
\* Properties of the entity routes
\* ------------------------------------------------------------------------
\* C29 as stated: with app.state.entity unset the three handlers answer 503
\* with detail "Entity extraction service not available", and they answer
\* 500 only when the extraction itself raised.
C29_UnavailableServiceIs503 ==
  f_pc = "returned" =>
    /\ f_args.entity # "service" =>
         /\ f_ret.status_code = 503
         /\ f_ret.detail = <<"Entity extraction service not available">>
    /\ f_ret.status_code = 500 =>
         (f_args.entity = "service" /\ f_args.called.raised)

\* ------------------------------------------------------------------------
\* POST /bulk of the ingestion routes
\* ------------------------------------------------------------------------
\* "bulk_request.batch_size or 10"
default_batch_size == 10

\* list(range(0, n, step)) for step # 0
RECURSIVE range_from(_, _, _)
range_from(i, n, step) ==
  IF step > 0 /\ i < n THEN <<i>> \o range_from(i + step, n, step) ELSE <<>>

\* the positions (from 1) of bulk_request.items in the order the two loops
\* of ingest_bulk reach them
loop_positions(n, batch_size) ==
  LET starts == range_from(0, n, batch_size)
      batch(i) == [k \in 1..(IF i + batch_size < n THEN batch_size ELSE n - i) |-> i + k]
  IN Concat([b \in 1..Len(starts) |-> batch(starts[b])])

\* the try block of ingest_bulk once the store was found: stores tells for
\* each item whether weaviate_service.store_document returns or raises
bulk_body(items, batch_size_field, stores) ==
  LET batch_size == IF batch_size_field.ok /\ batch_size_field.value # 0
                    THEN batch_size_field.value ELSE default_batch_size
      attempts == loop_positions(Len(items), batch_size)
      results ==
        [k \in 1..Len(attempts) |->
           IF stores[attempts[k]] = "stored"
           THEN [success |-> TRUE,
                 document_id |-> <<"document", attempts[k]>>,
                 title |-> items[attempts[k]].title,
                 content_length |-> Len(items[attempts[k]].content)]
           ELSE [success |-> FALSE,
                 error |-> ServiceError,
                 title |-> items[attempts[k]].title]]
      successful == Cardinality({k \in 1..Len(results) : results[k].success})
  IN [attempts |-> attempts,
      response |-> JSONResponse([success |-> TRUE,
                                 total_items |-> Len(items),
                                 successful |-> successful,
                                 failed |-> Len(results) - successful,
                                 results |-> results])]

\* ingest_bulk: weaviate tells whether app.state.weaviate holds the store;
\* the except clause turns whatever the try block raised into status 500
ingest_bulk(weaviate, items, batch_size_field, stores) ==
  IF weaviate = "none"
  THEN [attempts |-> <<>>,
        status_code |-> 500,
        detail |-> <<"Bulk ingestion failed: ",
                     HTTPException(503, "Weaviate service not available")>>]
  ELSE LET done == bulk_body(items, batch_size_field, stores)
       IN [attempts |-> done.attempts,
           status_code |-> 200,
           content |-> done.response.content]

\* ------------------------------------------------------------------------
\* Bulk ingestion specification: POST /bulk with every short item list,
\* every batch size around the list length and every outcome of the store
\* ------------------------------------------------------------------------
\* longest item list of a bulk request
MaxItems == 3

BulkItems ==
  {[content |-> <<"a">>, title |-> Some(<<"A">>)],
   [content |-> <<"b","b">>, title |-> None]}

\* batch_size: absent, zero, negative, and up to one more than the longest
\* list
BatchSizes == {None} \cup {Some(k) : k \in (0 - 1)..(MaxItems + 1)}

\* one request to POST /bulk
BulkCall ==
  /\ f_pc = "idle"
  /\ \E weaviate \in {"none", "service"}, n \in 0..MaxItems, batch_size \in BatchSizes :
     \E items \in [1..n -> BulkItems], stores \in [1..n -> {"stored", "raises"}] :
       /\ weaviate = "none" => \A k \in 1..n : stores[k] = "stored"
       /\ f_args' = [weaviate |-> weaviate, items |-> items,
                     batch_size |-> batch_size, stores |-> stores]
       /\ f_ret' = ingest_bulk(weaviate, items, batch_size, stores)
  /\ f_pc' = "returned"
  /\ UNCHANGED <<service_vars, call_vars, merge_vars, conc_vars>>

NextBulk == BulkCall \/ FnReturn

SpecBulk == InitFn /\ [][NextBulk]_vars

\* ------------------------------------------------------------------------
\* Properties of ingest_bulk
\* ------------------------------------------------------------------------
\* C30 as stated: when the store is there, whatever batch_size is, every
\* item is handed to the store once and in input order, results has one
\* entry per item in that order, failed where the store raised and
\* successful elsewhere, and successful + failed = total_items.
C30_EveryItemAttemptedOnce ==
  (f_pc = "returned" /\ f_args.weaviate = "service") =>
    /\ f_ret.attempts = [k \in 1..Len(f_args.items) |-> k]
    /\ f_ret.status_code = 200
    /\ Len(f_ret.content.results) = Len(f_args.items)
    /\ \A k \in 1..Len(f_args.items) :
         /\ f_ret.content.results[k].title = f_args.items[k].title
         /\ f_ret.content.results[k].success <=> (f_args.stores[k] = "stored")
    /\ f_ret.content.total_items = Len(f_args.items)
    /\ f_ret.content.successful + f_ret.content.failed = f_ret.content.total_items

====
